---- MODULE Spec2Model ----
(***************************************************************************)
(* Model of tablux: the JSON tree viewer (pkg/ui JSONViewer), the CSV      *)
(* table model (pkg/parser CSVData), the CSV table viewer (pkg/ui          *)
(* CSVViewer), format detection (pkg/parser) and the Bubble Tea model      *)
(* that loads the input and dispatches keys and resizes (main).            *)
(*                                                                         *)
(* Go slices are 0-based, TLA+ sequences 1-based: cursors, viewport        *)
(* origins and column indices keep their Go (0-based) values and are       *)
(* shifted by one only where a sequence is indexed.  Strings are sequences *)
(* of byte values, compared bytewise as Go compares strings; the keys and  *)
(* texts of the tree viewer, which are only concatenated, are strings.     *)
(***************************************************************************)
EXTENDS Integers, Sequences, FiniteSets, TLC

VARIABLES jsonViewer, csvViewer, lastOp, prevOp, model, program

vars == <<jsonViewer, csvViewer, lastOp, prevOp, model, program>>

(* The viewers used as a library, without the application around them. *)
NoApp == [none |-> TRUE]

(* A viewer the host does not hold (a nil *JSONViewer / *CSVViewer). *)
NilViewer == [nil |-> TRUE]

----------------------------------------------------------------------------
(* Bounds of the model *)

MaxNodes == 4
MaxViewportHeight == 3
MaxRows == 3
MaxCols == 2
MaxSortRows == 3
MaxWidthRows == 2

(* Program constants *)
HeaderFooterSpace == 4
CSVBorderSpace == 6
DefaultWidth == 100
DefaultViewportHeight == 20
DefaultColumnMaxWidth == 30
MinColumnWidth == 10

----------------------------------------------------------------------------
(* pkg/model: the JSON tree.  A tree is a record of sequences indexed by   *)
(* node: Parent (0 = nil), Children (ordered), Expanded, Type, Key and     *)
(* Value.  Node 1 is the root.                                             *)

RECURSIVE AncestorsOrSelf(_, _)
AncestorsOrSelf(par, n) ==
    IF n = 0 THEN {} ELSE {n} \cup AncestorsOrSelf(par, par[n])

RECURSIVE SetToSortedSeq(_)
SetToSortedSeq(S) ==
    IF S = {} THEN <<>>
    ELSE LET m == CHOOSE x \in S : \A y \in S : x <= y
         IN  <<m>> \o SetToSortedSeq(S \ {m})

(* Parent vectors of the trees with n nodes, the nodes numbered in the    *)
(* order the parser creates them (a node before its children, the        *)
(* children in document order).                                          *)
ParentVectors(n) ==
    { par \in [1..n -> 0..(n-1)] :
        /\ par[1] = 0
        /\ \A i \in 2..n : par[i] \in AncestorsOrSelf(par, i-1) }

(* A decoded JSON value, as json.Unmarshal hands it to NewJSONNode: for   *)
(* every value of the document its parent, its kind, its member name     *)
(* ("" for an array element and for the top-level value) and the text of *)
(* its scalar payload.                                                   *)
MemberNames == <<"a", "b", "c", "d", "e", "f">>

ScalarTypes == <<"NodeString", "NodeNumber", "NodeBoolean", "NodeNull">>

ScalarText(type) ==
    CASE type = "NodeString"  -> "x"
      [] type = "NodeNumber"  -> "1"
      [] type = "NodeBoolean" -> "true"
      [] OTHER                -> ""

(* The position of node c among the children of its parent, from 1. *)
ChildPosition(par, c) == Cardinality({d \in 1..c : par[d] = par[c]})

(* A sample value of the shape par.  Containers alternate between object *)
(* and array, starting with an object (p = 0) or an array (p = 1); the   *)
(* values without children run through the scalar kinds and the empty    *)
(* object.                                                               *)
SampleValue(par, p) ==
    LET n == Len(par)
        type == [i \in 1..n |->
                    IF \E c \in 1..n : par[c] = i
                    THEN IF (i + p) % 2 = 1 THEN "NodeObject" ELSE "NodeArray"
                    ELSE IF (i + p) % 5 = 0 THEN "NodeObject"
                    ELSE ScalarTypes[(i + p) % 5] ]
    IN  [ Parent |-> par,
          Type   |-> type,
          Name   |-> [i \in 1..n |->
                        IF par[i] # 0 /\ type[par[i]] = "NodeObject"
                        THEN MemberNames[ChildPosition(par, i)] ELSE ""],
          Value  |-> [i \in 1..n |-> ScalarText(type[i])] ]

(* The value of the document {"a":1,"b":[1,2]}. *)
ScenarioValue ==
    [ Parent |-> <<0, 1, 1, 3, 3>>,
      Type   |-> <<"NodeObject", "NodeNumber", "NodeArray", "NodeNumber", "NodeNumber">>,
      Name   |-> <<"", "a", "b", "", "">>,
      Value  |-> <<"", "1", "", "1", "2">> ]

(* The value of the document {"root":1,"b":2}. *)
RootMemberValue ==
    [ Parent |-> <<0, 1, 1>>,
      Type   |-> <<"NodeObject", "NodeNumber", "NodeNumber">>,
      Name   |-> <<"", "root", "b">>,
      Value  |-> <<"", "1", "2">> ]

(* NewJSONNode(key, value, nil): builds the node, its children and their *)
(* back-references; every node starts expanded.                          *)
NewJSONNode(key, value) ==
    LET par == value.Parent
        n == Len(par)
    IN  [ Parent   |-> par,
          Children |-> [p \in 1..n |-> SetToSortedSeq({c \in 1..n : par[c] = p})],
          Expanded |-> [p \in 1..n |-> TRUE],
          Type     |-> value.Type,
          Key      |-> [i \in 1..n |-> IF i = 1 THEN key ELSE value.Name[i]],
          Value    |-> value.Value ]

(* model.String on a number or a boolean payload: its textual form, which *)
(* is how the payload is kept here.                                       *)
String(value) == value

HasChildren(root, node) == Len(root.Children[node]) > 0

Toggle(root, node) ==
    [root EXCEPT !.Expanded[node] = ~root.Expanded[node]]

----------------------------------------------------------------------------
(* pkg/ui: JSONViewer *)

RECURSIVE flattenNode(_, _, _)
RECURSIVE flattenChildren(_, _, _, _)
(* flattenNode with the expansion test inverted. *)
flattenNodeInverted(root, nodes, node) ==
    LET appended == Append(nodes, node)
    IN  IF root.Expanded[node] THEN appended
        ELSE flattenChildren(root, appended, root.Children[node], 1)

(* flattenNode appends node and, when it is expanded, its children's      *)
(* subtrees to the list "nodes".                                          *)
flattenNode(root, nodes, node) ==
    LET appended == Append(nodes, node)
    IN  IF ~root.Expanded[node] THEN appended
        ELSE flattenChildren(root, appended, root.Children[node], 1)

flattenChildren(root, nodes, kids, i) ==
    IF i > Len(kids) THEN nodes
    ELSE flattenChildren(root, flattenNode(root, nodes, kids[i]), kids, i + 1)

(* The ancestor walk of updateVisibleNodes, started at node.Parent. *)
RECURSIVE isVisible(_, _)
isVisible(root, parent) ==
    IF parent = 0 THEN TRUE
    ELSE IF ~root.Expanded[parent] THEN FALSE
    ELSE isVisible(root, root.Parent[parent])

(* updateVisibleNodes without the final cursor check. *)
updateVisibleNodesNoClamp(v) ==
    [v EXCEPT !.visibleNodes =
        SelectSeq(v.nodes, LAMBDA node : isVisible(v.root, v.root.Parent[node]))]

updateVisibleNodes(v) ==
    LET vis == SelectSeq(v.nodes, LAMBDA node : isVisible(v.root, v.root.Parent[node]))
    IN  [v EXCEPT !.visibleNodes = vis,
                  !.cursor = IF v.cursor >= Len(vis) /\ Len(vis) > 0
                             THEN Len(vis) - 1 ELSE v.cursor]

buildNodeList(v) ==
    updateVisibleNodes([v EXCEPT !.nodes = flattenNode(v.root, <<>>, 1),
                                 !.visibleNodes = <<>>])

(* NewJSONViewer that leaves the node lists unbuilt. *)
NewJSONViewerNoBuild(root) ==
    [ root |-> root, cursor |-> 0, nodes |-> <<>>,
      visibleNodes |-> <<>>, viewportY |-> 0,
      viewportHeight |-> DefaultViewportHeight ]

NewJSONViewer(root) ==
    buildNodeList([ root |-> root, cursor |-> 0, nodes |-> <<>>,
                    visibleNodes |-> <<>>, viewportY |-> 0,
                    viewportHeight |-> DefaultViewportHeight ])

(* ensureCursorVisible scrolling one row too far when the cursor is below. *)
ensureCursorVisibleOffByOne(v) ==
    IF v.cursor < v.viewportY
    THEN [v EXCEPT !.viewportY = v.cursor]
    ELSE IF v.cursor >= v.viewportY + v.viewportHeight
    THEN [v EXCEPT !.viewportY = v.cursor - v.viewportHeight]
    ELSE v

(* ensureCursorVisible aligning the cursor with the last viewport line   *)
(* whenever it is not above the viewport.                                *)
ensureCursorVisibleAlignBottom(v) ==
    IF v.cursor < v.viewportY
    THEN [v EXCEPT !.viewportY = v.cursor]
    ELSE [v EXCEPT !.viewportY = v.cursor - v.viewportHeight + 1]

ensureCursorVisible(v) ==
    IF v.cursor < v.viewportY
    THEN [v EXCEPT !.viewportY = v.cursor]
    ELSE IF v.cursor >= v.viewportY + v.viewportHeight
    THEN [v EXCEPT !.viewportY = v.cursor - v.viewportHeight + 1]
    ELSE v

RECURSIVE toggleAllNodes(_, _, _)
RECURSIVE toggleAllChildren(_, _, _, _)
(* toggleAllNodes that sets the flag of the given node only. *)
toggleAllNodesNoRecursion(root, node, expanded) ==
    IF HasChildren(root, node)
    THEN [root EXCEPT !.Expanded[node] = expanded]
    ELSE root

toggleAllNodes(root, node, expanded) ==
    IF HasChildren(root, node)
    THEN toggleAllChildren([root EXCEPT !.Expanded[node] = expanded],
                           root.Children[node], 1, expanded)
    ELSE root

toggleAllChildren(root, kids, i, expanded) ==
    IF i > Len(kids) THEN root
    ELSE toggleAllChildren(toggleAllNodes(root, kids[i], expanded), kids, i + 1, expanded)

MoveUp(v) ==
    ensureCursorVisible(IF v.cursor > 0 THEN [v EXCEPT !.cursor = v.cursor - 1] ELSE v)

MoveDown(v) ==
    ensureCursorVisible(IF v.cursor < Len(v.visibleNodes) - 1
                        THEN [v EXCEPT !.cursor = v.cursor + 1] ELSE v)

JSONViewer_MoveUp ==
    /\ jsonViewer # NilViewer
    /\ jsonViewer' = MoveUp(jsonViewer)
    /\ lastOp' = "JSONViewer.MoveUp"
    /\ prevOp' = lastOp
    /\ UNCHANGED <<csvViewer, model, program>>

JSONViewer_MoveDown ==
    /\ jsonViewer # NilViewer
    /\ jsonViewer' = MoveDown(jsonViewer)
    /\ lastOp' = "JSONViewer.MoveDown"
    /\ prevOp' = lastOp
    /\ UNCHANGED <<csvViewer, model, program>>

(* ToggleNode without the HasChildren test. *)
ToggleNodeAnyNode(v) ==
    IF v.cursor < Len(v.visibleNodes)
    THEN buildNodeList([v EXCEPT !.root = Toggle(v.root, v.visibleNodes[v.cursor + 1])])
    ELSE v

ToggleNode(v) ==
    IF v.cursor < Len(v.visibleNodes)
    THEN LET node == v.visibleNodes[v.cursor + 1]
         IN  IF HasChildren(v.root, node)
             THEN buildNodeList([v EXCEPT !.root = Toggle(v.root, node)])
             ELSE v
    ELSE v

JSONViewer_ToggleNode ==
    /\ jsonViewer # NilViewer
    /\ jsonViewer' = ToggleNode(jsonViewer)
    /\ lastOp' = "JSONViewer.ToggleNode"
    /\ prevOp' = lastOp
    /\ UNCHANGED <<csvViewer, model, program>>

CollapseAll(v) == buildNodeList([v EXCEPT !.root = toggleAllNodes(v.root, 1, FALSE)])

ExpandAll(v) == buildNodeList([v EXCEPT !.root = toggleAllNodes(v.root, 1, TRUE)])

JSONViewer_CollapseAll ==
    /\ jsonViewer # NilViewer
    /\ jsonViewer' = CollapseAll(jsonViewer)
    /\ lastOp' = "JSONViewer.CollapseAll"
    /\ prevOp' = lastOp
    /\ UNCHANGED <<csvViewer, model, program>>

JSONViewer_ExpandAll ==
    /\ jsonViewer # NilViewer
    /\ jsonViewer' = ExpandAll(jsonViewer)
    /\ lastOp' = "JSONViewer.ExpandAll"
    /\ prevOp' = lastOp
    /\ UNCHANGED <<csvViewer, model, program>>

SetViewportHeight(v, height) ==
    ensureCursorVisible([v EXCEPT !.viewportHeight = height])

(* Heights the host can pass: terminal height minus HeaderFooterSpace. *)
ViewportHeights == (0 - HeaderFooterSpace)..MaxViewportHeight

JSONViewer_SetViewportHeight ==
    /\ jsonViewer # NilViewer
    /\ \E height \in ViewportHeights :
           jsonViewer' = SetViewportHeight(jsonViewer, height)
    /\ lastOp' = "JSONViewer.SetViewportHeight"
    /\ prevOp' = lastOp
    /\ UNCHANGED <<csvViewer, model, program>>

(* pluralize that keeps the singular for every count. *)
pluralizeNever(word, count) == word

pluralize(word, count) == IF count = 1 THEN word ELSE word \o "s"

valuePadding == "  "

(* formatNode: the three texts the line is joined from, before styling. *)
formatNode(root, node) ==
    LET key == IF root.Key[node] # "" /\ root.Key[node] # "root"
               THEN "\"" \o root.Key[node] \o "\""
               ELSE ""
        separator == IF key # "" THEN ": " \o valuePadding ELSE ""
        childCount == Len(root.Children[node])
        type == root.Type[node]
        value ==
            CASE type = "NodeObject" ->
                    IF root.Expanded[node] THEN "{"
                    ELSE "{ " \o ToString(childCount) \o " "
                              \o pluralize("item", childCount) \o " }"
              [] type = "NodeArray" ->
                    IF root.Expanded[node] THEN "["
                    ELSE "[ " \o ToString(childCount) \o " "
                              \o pluralize("item", childCount) \o " ]"
              [] type = "NodeString"  -> "\"" \o root.Value[node] \o "\""
              [] type = "NodeNumber"  -> String(root.Value[node])
              [] type = "NodeBoolean" -> String(root.Value[node])
              [] type = "NodeNull"    -> "null"
              [] OTHER                -> String(root.Value[node])
    IN  [ key |-> key, separator |-> separator, value |-> value ]

RECURSIVE ancestry(_, _)
(* The ancestry loop of getIndentation: the ancestors of node, the root  *)
(* first and the parent of node last.                                    *)
ancestry(root, node) ==
    IF root.Parent[node] = 0 THEN <<>>
    ELSE ancestry(root, root.Parent[node]) \o <<root.Parent[node]>>

(* getIndentation choosing the symbol by the expanded flag alone. *)
getIndentationSymbolByFlag(root, node) ==
    LET anc == ancestry(root, node)
        n == Len(anc)
        isLast(i) ==
            /\ i = n - 1
            /\ LET children == root.Children[anc[i + 1]]
               IN  \E j \in 1..Len(children) :
                      children[j] = node /\ j = Len(children)
    IN  [ branches |-> [i \in 1..(n - 1) |-> IF isLast(i) THEN "empty" ELSE "pipe"],
          symbol |-> IF root.Expanded[node] THEN "expanded" ELSE "collapsed" ]

(* getIndentation: the tree branches written for ancestry[1..] and the   *)
(* expand/collapse symbol, by their keys in treeStyles ("  " for a node  *)
(* without children).                                                    *)
getIndentation(root, node) ==
    LET anc == ancestry(root, node)
        n == Len(anc)
        isLast(i) ==
            /\ i = n - 1
            /\ LET children == root.Children[anc[i + 1]]
               IN  \E j \in 1..Len(children) :
                      children[j] = node /\ j = Len(children)
    IN  [ branches |-> [i \in 1..(n - 1) |-> IF isLast(i) THEN "empty" ELSE "pipe"],
          symbol |-> IF HasChildren(root, node)
                     THEN IF root.Expanded[node] THEN "expanded" ELSE "collapsed"
                     ELSE "  " ]

(* A Render that writes every visible node from viewportY on. *)
JSONViewer_RenderAll(v) ==
    [ k \in 1..(Len(v.visibleNodes) - v.viewportY) |->
        [ i |-> v.viewportY + k - 1,
          selected |-> v.viewportY + k - 1 = v.cursor ] ]

(* JSONViewer.Render: for each line written, the index i of visibleNodes  *)
(* the loop reads and whether the line is rendered as selected; no line  *)
(* for an empty list ("Empty JSON").                                     *)
JSONViewer_Render(v) ==
    IF Len(v.visibleNodes) = 0 THEN <<>>
    ELSE LET endIdx == IF v.viewportY + v.viewportHeight > Len(v.visibleNodes)
                       THEN Len(v.visibleNodes)
                       ELSE v.viewportY + v.viewportHeight
         IN  [ k \in 1..(endIdx - v.viewportY) |->
                 [ i |-> v.viewportY + k - 1,
                   selected |-> v.viewportY + k - 1 = v.cursor ] ]

(* JSONParser.Parse on the value json.Unmarshal decoded. *)
Parse_JSON(value) == NewJSONNode("root", value)

(* The documents the tree viewer is opened on. *)
TreeValues ==
    { SampleValue(par, p) : par \in UNION {ParentVectors(n) : n \in 1..MaxNodes},
                            p \in {0, 1} }
    \cup {ScenarioValue, RootMemberValue}

InitTree ==
    /\ \E value \in TreeValues : jsonViewer = NewJSONViewer(Parse_JSON(value))
    /\ csvViewer = NilViewer
    /\ lastOp = "NewJSONViewer"
    /\ prevOp = "none"
    /\ model = NoApp
    /\ program = NoApp

NextTree ==
    \/ JSONViewer_MoveUp
    \/ JSONViewer_MoveDown
    \/ JSONViewer_ToggleNode
    \/ JSONViewer_CollapseAll
    \/ JSONViewer_ExpandAll
    \/ JSONViewer_SetViewportHeight

SpecTree == InitTree /\ [][NextTree]_vars

----------------------------------------------------------------------------
(* pkg/parser: CSVData *)

(* Go's string comparison a < b: bytewise lexicographic order. *)
StrLess(a, b) ==
    \E k \in 1..Len(b) :
        /\ k - 1 <= Len(a)
        /\ \A m \in 1..(k - 1) : a[m] = b[m]
        /\ \/ k = Len(a) + 1
           \/ k <= Len(a) /\ a[k] < b[k]

NewCSVData ==
    [ Headers |-> <<>>, Rows |-> <<>>, ColumnWidths |-> <<>>,
      ColumnVisibility |-> <<>>, SortColumn |-> -1, SortAsc |-> FALSE ]

RECURSIVE maxCellLens(_, _, _)
(* The row loop of CSVData.calculateColumnWidths, from row r on. *)
maxCellLens(widths, rows, r) ==
    IF r > Len(rows) THEN widths
    ELSE maxCellLens(
           [i \in 1..Len(widths) |->
               IF i <= Len(rows[r]) /\ Len(rows[r][i]) > widths[i]
               THEN Len(rows[r][i]) ELSE widths[i]],
           rows, r + 1)

CSVData_calculateColumnWidths(c) ==
    [c EXCEPT !.ColumnWidths =
        maxCellLens([i \in 1..Len(c.Headers) |-> Len(c.Headers[i])], c.Rows, 1)]

(* Parse sizing ColumnVisibility by the number of records. *)
ParseVisibilityPerRecord(records) ==
    IF Len(records) = 0 THEN NewCSVData
    ELSE CSVData_calculateColumnWidths(
           [NewCSVData EXCEPT
              !.Headers = records[1],
              !.ColumnVisibility = [i \in 1..Len(records) |-> TRUE],
              !.Rows = SubSeq(records, 2, Len(records))])

(* Parse that keeps the first record among the rows (startRow = 0). *)
ParseHeaderAmongRows(records) ==
    IF Len(records) = 0 THEN NewCSVData
    ELSE CSVData_calculateColumnWidths(
           [NewCSVData EXCEPT
              !.Headers = records[1],
              !.ColumnVisibility = [i \in 1..Len(records[1]) |-> TRUE],
              !.Rows = records])

(* CSVParser.Parse on the records csv.Reader.ReadAll returned            *)
(* (UseFirstLineAsHeader is true in NewCSVParser).                       *)
Parse(records) ==
    IF Len(records) = 0 THEN NewCSVData
    ELSE CSVData_calculateColumnWidths(
           [NewCSVData EXCEPT
              !.Headers = records[1],
              !.ColumnVisibility = [i \in 1..Len(records[1]) |-> TRUE],
              !.Rows = SubSeq(records, 2, Len(records))])

(* ToggleColumnVisibility that hides the column instead of flipping it. *)
ToggleColumnVisibilityHideOnly(c, colIndex) ==
    IF colIndex >= 0 /\ colIndex < Len(c.ColumnVisibility)
    THEN [c EXCEPT !.ColumnVisibility[colIndex + 1] = FALSE]
    ELSE c

ToggleColumnVisibility(c, colIndex) ==
    IF colIndex >= 0 /\ colIndex < Len(c.ColumnVisibility)
    THEN [c EXCEPT !.ColumnVisibility[colIndex + 1] = ~c.ColumnVisibility[colIndex + 1]]
    ELSE c

(* The test of the inner loop of SortByColumn on rows i and j. *)
sortMustSwap(rows, colIndex, ascending, i, j) ==
    /\ colIndex < Len(rows[i])
    /\ colIndex < Len(rows[j])
    /\ IF ascending
       THEN StrLess(rows[j][colIndex + 1], rows[i][colIndex + 1])
       ELSE StrLess(rows[i][colIndex + 1], rows[j][colIndex + 1])

RECURSIVE sortInnerLoop(_, _, _, _, _)
(* The inner loop assigning row j to row i without the reverse. *)
sortInnerLoopOverwrite(rows, colIndex, ascending, i, j) ==
    IF j > Len(rows) THEN rows
    ELSE sortInnerLoop(
           IF sortMustSwap(rows, colIndex, ascending, i, j)
           THEN [rows EXCEPT ![i] = rows[j]]
           ELSE rows,
           colIndex, ascending, i, j + 1)

sortInnerLoop(rows, colIndex, ascending, i, j) ==
    IF j > Len(rows) THEN rows
    ELSE sortInnerLoop(
           IF sortMustSwap(rows, colIndex, ascending, i, j)
           THEN [rows EXCEPT ![i] = rows[j], ![j] = rows[i]]
           ELSE rows,
           colIndex, ascending, i, j + 1)

RECURSIVE sortOuterLoop(_, _, _, _)
(* The outer loop stopping one row early. *)
sortOuterLoopShort(rows, colIndex, ascending, i) ==
    IF i > Len(rows) - 2 THEN rows
    ELSE sortOuterLoop(sortInnerLoop(rows, colIndex, ascending, i, i + 1),
                       colIndex, ascending, i + 1)

sortOuterLoop(rows, colIndex, ascending, i) ==
    IF i > Len(rows) - 1 THEN rows
    ELSE sortOuterLoop(sortInnerLoop(rows, colIndex, ascending, i, i + 1),
                       colIndex, ascending, i + 1)

SortByColumn(c, colIndex, ascending) ==
    IF colIndex < 0 \/ colIndex >= Len(c.Headers) THEN c
    ELSE [c EXCEPT !.SortColumn = colIndex,
                   !.SortAsc = ascending,
                   !.Rows = sortOuterLoop(c.Rows, colIndex, ascending, 1)]

----------------------------------------------------------------------------
(* pkg/ui: CSVViewer *)

RECURSIVE maxCellWidths(_, _, _)
(* The row loop of CSVViewer.calculateColumnWidths, from row r on. *)
maxCellWidths(widths, rows, r) ==
    IF r > Len(rows) THEN widths
    ELSE maxCellWidths(
           [i \in 1..Len(widths) |->
               IF i <= Len(rows[r]) /\ Len(rows[r][i]) + 2 > widths[i]
               THEN Len(rows[r][i]) + 2 ELSE widths[i]],
           rows, r + 1)

(* capWidth without the rounding to an even width. *)
capWidthNoRounding(width, columnMaxWidth) ==
    IF width > columnMaxWidth THEN columnMaxWidth
    ELSE IF width < MinColumnWidth THEN MinColumnWidth
    ELSE width

(* The final loop of calculateColumnWidths on one width. *)
(* capWidth without the minimum width. *)
capWidthNoMinimum(width, columnMaxWidth) ==
    LET capped == IF width > columnMaxWidth THEN columnMaxWidth ELSE width
    IN  IF capped % 2 = 1 THEN capped + 1 ELSE capped

capWidth(width, columnMaxWidth) ==
    LET capped == IF width > columnMaxWidth THEN columnMaxWidth
                  ELSE IF width < MinColumnWidth THEN MinColumnWidth
                  ELSE width
    IN  IF capped % 2 = 1 THEN capped + 1 ELSE capped

calculateColumnWidths(v) ==
    LET headerWidths == [i \in 1..Len(v.data.Headers) |-> Len(v.data.Headers[i]) + 4]
        dataWidths   == maxCellWidths(headerWidths, v.data.Rows, 1)
    IN  [v EXCEPT !.columnWidths =
            [i \in 1..Len(dataWidths) |-> capWidth(dataWidths[i], v.columnMaxWidth)]]

NewCSVViewer(data) ==
    calculateColumnWidths(
        [ data |-> data, cursorRow |-> 0, cursorCol |-> 0,
          viewportX |-> 0, viewportY |-> 0,
          viewportWidth |-> 0, viewportHeight |-> 0,
          columnMaxWidth |-> DefaultColumnMaxWidth, columnWidths |-> <<>> ])

(* CSVViewer.ensureCursorVisible without the line reserved for the header. *)
ensureCursorVisibleCSVNoHeaderLine(v) ==
    IF v.cursorRow < v.viewportY
    THEN [v EXCEPT !.viewportY = v.cursorRow]
    ELSE IF v.cursorRow >= v.viewportY + v.viewportHeight
    THEN [v EXCEPT !.viewportY = v.cursorRow - v.viewportHeight + 1]
    ELSE v

ensureCursorVisibleCSV(v) ==
    IF v.cursorRow < v.viewportY
    THEN [v EXCEPT !.viewportY = v.cursorRow]
    ELSE IF v.cursorRow >= v.viewportY + v.viewportHeight - 1
    THEN [v EXCEPT !.viewportY = v.cursorRow - v.viewportHeight + 2]
    ELSE v

(* SetViewport recomputing the column widths with the viewport width as  *)
(* their cap.                                                            *)
SetViewportRecomputingWidths(v, width, height) ==
    ensureCursorVisibleCSV(
        [calculateColumnWidths([v EXCEPT !.columnMaxWidth = width])
            EXCEPT !.columnMaxWidth = v.columnMaxWidth,
                   !.viewportWidth = width, !.viewportHeight = height])

SetViewport(v, width, height) ==
    ensureCursorVisibleCSV([v EXCEPT !.viewportWidth = width, !.viewportHeight = height])

(* Sizes the host can pass: terminal width minus HeaderFooterSpace (for  *)
(* terminals of 0, 14 and DefaultWidth columns) and terminal height      *)
(* minus CSVBorderSpace.                                                 *)
CSVViewportWidths == {0 - HeaderFooterSpace, MinColumnWidth, DefaultWidth - HeaderFooterSpace}
CSVViewportHeights == {0 - CSVBorderSpace} \cup 0..(MaxViewportHeight + 1)

CSVViewer_SetViewport ==
    /\ csvViewer # NilViewer
    /\ \E width \in CSVViewportWidths : \E height \in CSVViewportHeights :
           csvViewer' = SetViewport(csvViewer, width, height)
    /\ lastOp' = "CSVViewer.SetViewport"
    /\ UNCHANGED <<jsonViewer, prevOp, model, program>>

MoveUpCSV(v) ==
    IF v.cursorRow > 0
    THEN ensureCursorVisibleCSV([v EXCEPT !.cursorRow = v.cursorRow - 1])
    ELSE v

MoveDownCSV(v) ==
    IF v.cursorRow < Len(v.data.Rows)
    THEN ensureCursorVisibleCSV([v EXCEPT !.cursorRow = v.cursorRow + 1])
    ELSE v

MoveLeft(v) ==
    IF v.cursorCol > 0
    THEN ensureCursorVisibleCSV([v EXCEPT !.cursorCol = v.cursorCol - 1])
    ELSE v

MoveRight(v) ==
    IF v.cursorCol < Len(v.data.Headers) - 1
    THEN ensureCursorVisibleCSV([v EXCEPT !.cursorCol = v.cursorCol + 1])
    ELSE v

ToggleColumnVisibilityCSV(v) ==
    [v EXCEPT !.data = ToggleColumnVisibility(v.data, v.cursorCol)]

CSVViewer_MoveUp ==
    /\ csvViewer # NilViewer
    /\ csvViewer' = MoveUpCSV(csvViewer)
    /\ lastOp' = "CSVViewer.MoveUp"
    /\ UNCHANGED <<jsonViewer, prevOp, model, program>>

CSVViewer_MoveDown ==
    /\ csvViewer # NilViewer
    /\ csvViewer' = MoveDownCSV(csvViewer)
    /\ lastOp' = "CSVViewer.MoveDown"
    /\ UNCHANGED <<jsonViewer, prevOp, model, program>>

CSVViewer_MoveLeft ==
    /\ csvViewer # NilViewer
    /\ csvViewer' = MoveLeft(csvViewer)
    /\ lastOp' = "CSVViewer.MoveLeft"
    /\ UNCHANGED <<jsonViewer, prevOp, model, program>>

(* MoveRight bounded by the column count instead of the last column. *)
CSVViewer_MoveRightPastLast ==
    /\ csvViewer # NilViewer
    /\ csvViewer' = IF csvViewer.cursorCol < Len(csvViewer.data.Headers)
                    THEN ensureCursorVisibleCSV(
                           [csvViewer EXCEPT !.cursorCol = csvViewer.cursorCol + 1])
                    ELSE csvViewer
    /\ lastOp' = "CSVViewer.MoveRight"
    /\ UNCHANGED <<jsonViewer, prevOp, model, program>>

CSVViewer_MoveRight ==
    /\ csvViewer # NilViewer
    /\ csvViewer' = MoveRight(csvViewer)
    /\ lastOp' = "CSVViewer.MoveRight"
    /\ UNCHANGED <<jsonViewer, prevOp, model, program>>

CSVViewer_ToggleColumnVisibility ==
    /\ csvViewer # NilViewer
    /\ csvViewer' = ToggleColumnVisibilityCSV(csvViewer)
    /\ lastOp' = "CSVViewer.ToggleColumnVisibility"
    /\ UNCHANGED <<jsonViewer, prevOp, model, program>>

(* SortByCurrentColumn flipping the direction whatever the sort column. *)
SortByCurrentColumnAlwaysFlip(v) ==
    [v EXCEPT !.data = SortByColumn(v.data, v.cursorCol, ~v.data.SortAsc)]

SortByCurrentColumn(v) ==
    LET ascending == IF v.data.SortColumn = v.cursorCol THEN ~v.data.SortAsc ELSE TRUE
    IN  [v EXCEPT !.data = SortByColumn(v.data, v.cursorCol, ascending)]

CSVViewer_SortByCurrentColumn ==
    /\ csvViewer # NilViewer
    /\ csvViewer' = SortByCurrentColumn(csvViewer)
    /\ lastOp' = "CSVViewer.SortByCurrentColumn"
    /\ UNCHANGED <<jsonViewer, prevOp, model, program>>

(* A direct call of the exported CSVData.SortByColumn on the viewer's data. *)
CSVData_SortByColumn ==
    /\ csvViewer # NilViewer
    /\ \E colIndex \in -1..Len(csvViewer.data.Headers) : \E ascending \in BOOLEAN :
           csvViewer' = [csvViewer EXCEPT
                           !.data = SortByColumn(csvViewer.data, colIndex, ascending)]
    /\ lastOp' = "CSVData.SortByColumn"
    /\ UNCHANGED <<jsonViewer, prevOp, model, program>>

(* CSVViewer rendering.  A rendered line is the sequence of its cells   *)
(* before strings.Join; a cell keeps the text handed to the style, the   *)
(* width the style was given and the name of the style.                  *)
CollapsedColumnWidth == 2
CollapsedColumn == <<226, 148, 130>>
SortAscIndicator == <<32, 226, 150, 178>>
SortDescIndicator == <<32, 226, 150, 188>>
Ellipsis == <<46, 46, 46>>

min(a, b) == IF a < b THEN a ELSE b

(* if len(content) > width-2 { content = content[:width-5] + "..." } *)
truncateContent(content, width) ==
    IF Len(content) > width - 2
    THEN SubSeq(content, 1, width - 5) \o Ellipsis
    ELSE content

createHeaderRow(v) ==
    [i \in 1..Len(v.data.Headers) |->
        IF ~v.data.ColumnVisibility[i]
        THEN [ collapsed |-> TRUE, content |-> CollapsedColumn,
               width |-> CollapsedColumnWidth,
               style |-> IF i - 1 = v.cursorCol
                         THEN "CollapsedHeaderStyle+Highlight"
                         ELSE "CollapsedHeaderStyle" ]
        ELSE LET width == v.columnWidths[i]
                 content == IF i - 1 = v.data.SortColumn
                            THEN IF v.data.SortAsc
                                 THEN v.data.Headers[i] \o SortAscIndicator
                                 ELSE v.data.Headers[i] \o SortDescIndicator
                            ELSE v.data.Headers[i]
             IN  [ collapsed |-> FALSE,
                   content |-> truncateContent(content, width),
                   width |-> width,
                   style |-> IF i - 1 = v.cursorCol
                             THEN "HeaderStyle+Highlight"
                             ELSE "HeaderStyle" ] ]

(* createDataRow leaving hidden columns out of the row. *)
createDataRowSkipHidden(v, rowIdx) ==
    LET row == v.data.Rows[rowIdx + 1]
        shown == SelectSeq([i \in 1..Len(v.data.Headers) |-> i],
                           LAMBDA i : v.data.ColumnVisibility[i])
    IN  [k \in 1..Len(shown) |->
            [ collapsed |-> FALSE,
              content |-> truncateContent(IF shown[k] <= Len(row) THEN row[shown[k]] ELSE <<>>,
                                          v.columnWidths[shown[k]]),
              width |-> v.columnWidths[shown[k]],
              style |-> "CellStyle" ] ]

createDataRow(v, rowIdx) ==
    LET row == v.data.Rows[rowIdx + 1]
    IN  [i \in 1..Len(v.data.Headers) |->
            IF ~v.data.ColumnVisibility[i]
            THEN [ collapsed |-> TRUE, content |-> CollapsedColumn,
                   width |-> CollapsedColumnWidth,
                   style |-> IF i - 1 = v.cursorCol /\ rowIdx = v.cursorRow
                             THEN "CollapsedCellStyle+Highlight"
                             ELSE IF i - 1 = v.cursorCol
                             THEN "CollapsedCellStyle+Secondary"
                             ELSE IF rowIdx = v.cursorRow
                             THEN "CollapsedCellStyle+Background"
                             ELSE "CollapsedCellStyle" ]
            ELSE LET width == v.columnWidths[i]
                     content == IF i - 1 < Len(row) THEN row[i] ELSE <<>>
                 IN  [ collapsed |-> FALSE,
                       content |-> truncateContent(content, width),
                       width |-> width,
                       style |-> IF rowIdx = v.cursorRow /\ i - 1 = v.cursorCol
                                 THEN "SelectedCellStyle"
                                 ELSE IF rowIdx = v.cursorRow
                                 THEN "SelectedRowStyle"
                                 ELSE IF i - 1 = v.cursorCol
                                 THEN "SelectedColStyle"
                                 ELSE "CellStyle" ] ]

(* The row indices rowIdx the loop of CSVViewer.Render passes to         *)
(* createDataRow.                                                        *)
CSVViewer_RenderRowIndices(v) ==
    LET startRow == v.viewportY
        endRow == min(startRow + v.viewportHeight - 2, Len(v.data.Rows))
    IN  startRow..(endRow - 1)

(* CSVViewer.Render: the header line, then the rows startRow..endRow-1. *)
CSVViewer_Render(v) ==
    LET startRow == v.viewportY
        endRow == min(startRow + v.viewportHeight - 2, Len(v.data.Rows))
    IN  [ header |-> createHeaderRow(v),
          rows |-> [k \in 1..(endRow - startRow) |-> createDataRow(v, startRow + k - 1)] ]

----------------------------------------------------------------------------
(* Input tables *)

(* Cell contents: a string, an extension of it and a string that differs *)
(* from both in its first byte.                                          *)
Cells == {<<1>>, <<1, 2>>, <<2>>}

(* Column counts of the tables that are sorted or measured. *)
ColumnCounts == {1, 2}

(* The header record "1", "2", ... of a table with c columns. *)
SampleHeaders(c) == [i \in 1..c |-> <<i>>]

(* Records as csv.Reader.ReadAll returns them with FieldsPerRecord = 0:  *)
(* every record has as many fields as the first, and at least one.       *)
RectangularRecords(maxRows) ==
    UNION { { <<SampleHeaders(c)>> \o rows : rows \in [1..r -> [1..c -> Cells]] } :
            r \in 0..maxRows, c \in ColumnCounts }

(* One table per size: cell (i, j) holds the one-byte string (i*j) % 3. *)
SampleRecords(r, c) ==
    <<SampleHeaders(c)>> \o [i \in 1..r |-> [j \in 1..c |-> <<(i * j) % 3>>]]

InitWith(data) ==
    /\ csvViewer = NewCSVViewer(data)
    /\ jsonViewer = NilViewer
    /\ lastOp = "NewCSVViewer"
    /\ prevOp = "none"
    /\ model = NoApp
    /\ program = NoApp

(* The table viewer under every operation, one table per size (and the   *)
(* table of an empty input).                                             *)
InitTable ==
    \/ InitWith(Parse(<<>>))
    \/ \E r \in 0..MaxRows : \E c \in 1..MaxCols : InitWith(Parse(SampleRecords(r, c)))

NextTable ==
    \/ CSVViewer_SetViewport
    \/ CSVViewer_MoveUp
    \/ CSVViewer_MoveDown
    \/ CSVViewer_MoveLeft
    \/ CSVViewer_MoveRight
    \/ CSVViewer_ToggleColumnVisibility
    \/ CSVViewer_SortByCurrentColumn

SpecTable == InitTable /\ [][NextTable]_vars

(* Sorting on every parsed table within the bounds. *)
InitSort ==
    \E records \in RectangularRecords(MaxSortRows) : InitWith(Parse(records))

NextSort ==
    \/ CSVViewer_MoveLeft
    \/ CSVViewer_MoveRight
    \/ CSVViewer_SortByCurrentColumn
    \/ CSVData_SortByColumn

SpecSort == InitSort /\ [][NextSort]_vars

(* Sorting on CSVData whose rows may be shorter than the header: such    *)
(* data is built through the exported fields, Parse never returns it.    *)
RaggedData(headers, rows) ==
    [NewCSVData EXCEPT !.Headers = headers,
                       !.ColumnVisibility = [i \in 1..Len(headers) |-> TRUE],
                       !.Rows = rows]

InitRagged ==
    \E r \in 0..MaxSortRows : \E c \in ColumnCounts :
        \E rows \in [1..r -> UNION {[1..k -> Cells] : k \in 0..c}] :
            InitWith(RaggedData(SampleHeaders(c), rows))

SpecRagged == InitRagged /\ [][NextSort]_vars

(* Column widths: tables whose headers and cells have lengths on both    *)
(* sides of the minimum and maximum width.                               *)
Blank(n) == [k \in 1..n |-> 1]

HeaderLengths == {0, 7, 25, 28}
CellLengths == {0, 8, 10, 29}

InitWidths ==
    \E r \in 0..MaxWidthRows : \E c \in ColumnCounts :
        \E hs \in [1..c -> HeaderLengths] : \E ls \in [1..r -> [1..c -> CellLengths]] :
            InitWith(Parse(<<[j \in 1..c |-> Blank(hs[j])]>>
                           \o [i \in 1..r |-> [j \in 1..c |-> Blank(ls[i][j])]]))

NextWidths ==
    \/ CSVViewer_MoveLeft
    \/ CSVViewer_MoveRight

SpecWidths == InitWidths /\ [][NextWidths]_vars

(* Sorting and hiding columns on tables of one data row whose headers    *)
(* and cells have the lengths above.                                     *)
InitHeaders ==
    \E c \in ColumnCounts :
        \E hs \in [1..c -> HeaderLengths] : \E ls \in [1..c -> CellLengths] :
            InitWith(Parse(<<[j \in 1..c |-> Blank(hs[j])],
                             [j \in 1..c |-> Blank(ls[j])]>>))

NextHeaders ==
    \/ CSVViewer_MoveLeft
    \/ CSVViewer_MoveRight
    \/ CSVViewer_ToggleColumnVisibility
    \/ CSVViewer_SortByCurrentColumn

SpecHeaders == InitHeaders /\ [][NextHeaders]_vars

----------------------------------------------------------------------------
(* pkg/parser: format detection.  The input bytes are kept as what the    *)
(* decoders report about them: the first byte of the trimmed content, the *)
(* kind of each line of the trimmed content, the outcome of json.Unmarshal *)
(* on the whole content and the outcome of csv.Reader.ReadAll with        *)
(* FieldsPerRecord = -1.                                                   *)

TypeJSON == "json"
TypeJSONL == "jsonl"
TypeCSV == "csv"
TypeUnknown == "unknown"

(* Lines sampled by detectJSONLFormat. *)
SampleLimit == 10

(* A line after bytes.TrimSpace: a complete JSON object ("object"), a line *)
(* that starts with '{' but does not decode ("brace"), an empty line       *)
(* ("blank") or any other line ("other").                                  *)
LineKinds == {"object", "brace", "other", "blank"}

NoValue == [none |-> TRUE]
NoJSON == [valid |-> FALSE, value |-> NoValue]
CSVErr == [err |-> TRUE, records |-> <<>>]

ToTypeString(format) ==
    CASE format = "FormatJSON"  -> TypeJSON
      [] format = "FormatJSONL" -> TypeJSONL
      [] format = "FormatCSV"   -> TypeCSV
      [] OTHER                  -> TypeUnknown

detectJSONFormat(data) ==
    Len(data.lines) > 0 /\ data.firstByte \in {"{", "["} /\ data.json.valid

detectJSONLFormat(lines) ==
    IF Len(lines) <= 1 THEN FALSE
    ELSE LET sampleSize == min(SampleLimit, Len(lines))
             jsonlCount == Cardinality({i \in 1..sampleSize : lines[i] = "object"})
         IN  jsonlCount > 0 /\ jsonlCount >= sampleSize \div 2

(* detectCSVFormat accepting one half of the records. *)
detectCSVFormatAtLeastHalf(data) ==
    IF data.csv.err \/ Len(data.csv.records) <= 1 THEN FALSE
    ELSE LET records == data.csv.records
             validRows == Cardinality({i \in 1..Len(records) : Len(records[i]) >= 2})
         IN  validRows >= Len(records) \div 2

detectCSVFormat(data) ==
    IF data.csv.err \/ Len(data.csv.records) <= 1 THEN FALSE
    ELSE LET records == data.csv.records
             validRows == Cardinality({i \in 1..Len(records) : Len(records[i]) >= 2})
         IN  validRows > Len(records) \div 2

detectByContent(data) ==
    IF Len(data.lines) = 0 THEN "FormatUnknown"
    ELSE IF detectJSONFormat(data) THEN "FormatJSON"
    ELSE IF detectJSONLFormat(data.lines) THEN "FormatJSONL"
    ELSE IF detectCSVFormat(data) THEN "FormatCSV"
    ELSE "FormatUnknown"

DetectFileType(data) == ToTypeString(detectByContent(data))

(* ReadAll accepting records of any number of fields. *)
ReadAllAnyFieldCount(csv) == IF csv.err THEN CSVErr ELSE csv

(* csv.Reader.ReadAll as CSVParser.Parse configures it (FieldsPerRecord  *)
(* = 0): a record with another number of fields than the first is an     *)
(* error.                                                                *)
ReadAll(csv) ==
    IF csv.err THEN CSVErr
    ELSE IF \E i \in 1..Len(csv.records) : Len(csv.records[i]) # Len(csv.records[1])
    THEN CSVErr
    ELSE csv

----------------------------------------------------------------------------
(* main: the Bubble Tea model.  "model" holds the scalar fields of Model, *)
(* jsonViewer and csvViewer its two viewer fields; "program" holds the    *)
(* runtime around it: the input, the --format flag, the load command and  *)
(* its message in flight, whether tea.Quit was returned, and the message  *)
(* Update handled last.                                                   *)

NoMsg == [none |-> TRUE]

FileLoadedMsg(viewerType, jv, cv, error) ==
    [viewerType |-> viewerType, jsonViewer |-> jv, csvViewer |-> cv, error |-> error]

parseFile(data, forcedFormat) ==
    LET fileType == IF forcedFormat = "" THEN DetectFileType(data) ELSE forcedFormat
    IN  IF fileType \in {TypeJSON, TypeJSONL}
        THEN IF ~data.json.valid
             THEN FileLoadedMsg("", NilViewer, NilViewer, "failed to parse JSON")
             ELSE FileLoadedMsg(fileType, NewJSONViewer(Parse_JSON(data.json.value)),
                                NilViewer, "")
        ELSE IF fileType = TypeCSV
        THEN IF ReadAll(data.csv).err
             THEN FileLoadedMsg("", NilViewer, NilViewer, "failed to parse CSV")
             ELSE FileLoadedMsg(fileType, NilViewer,
                                NewCSVViewer(Parse(ReadAll(data.csv).records)), "")
        ELSE FileLoadedMsg("", NilViewer, NilViewer, "unsupported file type")

(* The command Init returns: it reads the source and parses it, once. *)
loadSourceCmd ==
    /\ program # NoApp
    /\ program.cmd = "scheduled"
    /\ program' = [program EXCEPT
          !.cmd = "done",
          !.fileType = IF program.source.readError THEN ""
                       ELSE IF program.formatFlag = ""
                       THEN DetectFileType(program.source.data)
                       ELSE program.formatFlag,
          !.pending = IF program.source.readError
                      THEN FileLoadedMsg("", NilViewer, NilViewer, "read error")
                      ELSE parseFile(program.source.data, program.formatFlag)]
    /\ UNCHANGED <<jsonViewer, csvViewer, lastOp, prevOp, model>>

Keys == {"up", "down", "left", "right", "enter", " ", "s", "q", "ctrl+c",
         "c", "e", "h", "j", "k", "l", "v"}

(* Update quitting on "q" only. *)
keyQuitsOnlyQ(key) == key = "q"

keyQuits(key) == key = "q" \/ key = "ctrl+c"

handleJSONKeyMsg(v, key) ==
    IF v = NilViewer THEN v
    ELSE CASE key = "up"              -> MoveUp(v)
           [] key = "down"            -> MoveDown(v)
           [] key \in {"enter", " "}  -> ToggleNode(v)
           [] OTHER                   -> v

(* The viewer method handleJSONKeyMsg calls for the key. *)
JSONKeyOp(v, key) ==
    IF v = NilViewer THEN "none"
    ELSE CASE key = "up"              -> "JSONViewer.MoveUp"
           [] key = "down"            -> "JSONViewer.MoveDown"
           [] key \in {"enter", " "}  -> "JSONViewer.ToggleNode"
           [] OTHER                   -> "none"

handleCSVKeyMsg(v, key) ==
    IF v = NilViewer THEN v
    ELSE CASE key = "up"              -> MoveUpCSV(v)
           [] key = "down"            -> MoveDownCSV(v)
           [] key = "left"            -> MoveLeft(v)
           [] key = "right"           -> MoveRight(v)
           [] key \in {"enter", " "}  -> ToggleColumnVisibilityCSV(v)
           [] key = "s"               -> SortByCurrentColumn(v)
           [] OTHER                   -> v

(* The viewer method handleCSVKeyMsg calls for the key. *)
CSVKeyOp(v, key) ==
    IF v = NilViewer THEN "none"
    ELSE CASE key = "up"              -> "CSVViewer.MoveUp"
           [] key = "down"            -> "CSVViewer.MoveDown"
           [] key = "left"            -> "CSVViewer.MoveLeft"
           [] key = "right"           -> "CSVViewer.MoveRight"
           [] key \in {"enter", " "}  -> "CSVViewer.ToggleColumnVisibility"
           [] key = "s"               -> "CSVViewer.SortByCurrentColumn"
           [] OTHER                   -> "none"

(* Update on a tea.KeyMsg. *)
Update_KeyMsg ==
    /\ program # NoApp
    /\ ~program.quit
    /\ \E key \in Keys :
          /\ program' = [program EXCEPT !.lastMsg = [type |-> "KeyMsg", key |-> key],
                                        !.quit = keyQuits(key)]
          /\ IF keyQuits(key)
             THEN /\ lastOp' = "none"
                  /\ UNCHANGED <<jsonViewer, csvViewer, prevOp>>
             ELSE IF model.viewerType \in {TypeJSON, TypeJSONL}
             THEN /\ jsonViewer' = handleJSONKeyMsg(jsonViewer, key)
                  /\ lastOp' = JSONKeyOp(jsonViewer, key)
                  /\ prevOp' = IF JSONKeyOp(jsonViewer, key) # "none" THEN lastOp ELSE prevOp
                  /\ UNCHANGED csvViewer
             ELSE IF model.viewerType = TypeCSV
             THEN /\ csvViewer' = handleCSVKeyMsg(csvViewer, key)
                  /\ lastOp' = CSVKeyOp(csvViewer, key)
                  /\ UNCHANGED <<jsonViewer, prevOp>>
             ELSE /\ lastOp' = "none"
                  /\ UNCHANGED <<jsonViewer, csvViewer, prevOp>>
    /\ UNCHANGED model

(* Terminal sizes the host reports: heights that leave the tree viewer   *)
(* -1, 1, 2, 4 and 6 lines and the table viewer -3, -1, 0, 2 and 4.      *)
TermWidths == {DefaultWidth}
TermHeights == {3, 5, 6, 8, 10}

(* Update on a tea.WindowSizeMsg. *)
Update_WindowSizeMsg ==
    /\ program # NoApp
    /\ ~program.quit
    /\ \E width \in TermWidths : \E height \in TermHeights :
          /\ model' = [model EXCEPT !.width = width, !.height = height]
          /\ jsonViewer' = IF jsonViewer # NilViewer
                           THEN SetViewportHeight(jsonViewer, height - HeaderFooterSpace)
                           ELSE jsonViewer
          /\ csvViewer' = IF csvViewer # NilViewer
                          THEN SetViewport(csvViewer, width - HeaderFooterSpace,
                                           height - CSVBorderSpace)
                          ELSE csvViewer
    /\ lastOp' = IF csvViewer # NilViewer THEN "CSVViewer.SetViewport"
                 ELSE IF jsonViewer # NilViewer THEN "JSONViewer.SetViewportHeight"
                 ELSE "none"
    /\ prevOp' = IF jsonViewer # NilViewer THEN lastOp ELSE prevOp
    /\ program' = [program EXCEPT !.lastMsg = [type |-> "WindowSizeMsg", key |-> ""]]

(* The FileLoadedMsg branch of Update that clears isLoading on success   *)
(* only.                                                                 *)
FileLoadedModelKeepsLoading(mm, msg) ==
    IF msg.error # ""
    THEN [mm EXCEPT !.errorMsg = "Error: " \o msg.error]
    ELSE [mm EXCEPT !.isLoading = FALSE, !.viewerType = msg.viewerType]

(* The FileLoadedMsg branch of Update that drops the error text. *)
FileLoadedModelErrorDropped(mm, msg) ==
    IF msg.error # ""
    THEN [mm EXCEPT !.isLoading = FALSE]
    ELSE [mm EXCEPT !.isLoading = FALSE, !.viewerType = msg.viewerType]

(* The fields of Model the FileLoadedMsg branch of Update assigns. *)
FileLoadedModel(mm, msg) ==
    IF msg.error # ""
    THEN [mm EXCEPT !.isLoading = FALSE, !.errorMsg = "Error: " \o msg.error]
    ELSE [mm EXCEPT !.isLoading = FALSE, !.viewerType = msg.viewerType]

(* Update on the FileLoadedMsg of the load command. *)
Update_FileLoadedMsg ==
    /\ program # NoApp
    /\ ~program.quit
    /\ program.pending # NoMsg
    /\ LET msg == program.pending
           isJSON == msg.error = "" /\ msg.viewerType \in {TypeJSON, TypeJSONL}
           isCSV == msg.error = "" /\ msg.viewerType = TypeCSV
       IN  /\ model' = FileLoadedModel(model, msg)
           /\ jsonViewer' = IF isJSON
                            THEN SetViewportHeight(msg.jsonViewer,
                                                   model.height - HeaderFooterSpace)
                            ELSE jsonViewer
           /\ csvViewer' = IF isCSV
                           THEN SetViewport(msg.csvViewer, model.width - HeaderFooterSpace,
                                            model.height - CSVBorderSpace)
                           ELSE csvViewer
           /\ lastOp' = IF isJSON THEN "JSONViewer.SetViewportHeight"
                        ELSE IF isCSV THEN "CSVViewer.SetViewport"
                        ELSE "none"
           /\ prevOp' = IF isJSON THEN lastOp ELSE prevOp
    /\ program' = [program EXCEPT !.pending = NoMsg,
                                  !.lastMsg = [type |-> "FileLoadedMsg", key |-> ""]]

(* Which of its three screens View returns. *)
View(mm) ==
    IF mm.errorMsg # "" THEN "renderError"
    ELSE IF mm.isLoading THEN "renderLoading"
    ELSE "viewer"

(* Input files *)
EmptyFile == [firstByte |-> "", lines |-> <<>>, json |-> NoJSON,
              csv |-> [err |-> FALSE, records |-> <<>>]]

(* A JSON document written on one line. *)
JSONFile(value) ==
    [ firstByte |-> IF value.Type[1] = "NodeObject" THEN "{"
                    ELSE IF value.Type[1] = "NodeArray" THEN "[" ELSE "x",
      lines |-> <<IF value.Type[1] = "NodeObject" THEN "object" ELSE "other">>,
      json |-> [valid |-> TRUE, value |-> value],
      csv |-> IF value.Type[1] \in {"NodeObject", "NodeArray"} THEN CSVErr
              ELSE [err |-> FALSE, records |-> <<<<Blank(1)>>>>] ]

(* A CSV file, one record on each line. *)
CSVFile(records) ==
    [ firstByte |-> "x", lines |-> [i \in 1..Len(records) |-> "other"],
      json |-> NoJSON, csv |-> [err |-> FALSE, records |-> records] ]

(* Lines of the given kinds that are neither one JSON document nor CSV. *)
LinesFile(lines) ==
    [ firstByte |-> IF lines[1] \in {"object", "brace"} THEN "{" ELSE "x",
      lines |-> lines, json |-> NoJSON, csv |-> CSVErr ]

MaxAppNodes == 2
MaxAppRows == 2
MaxLines == 3

(* The files the application is run on: JSON documents, CSV tables (one  *)
(* of them with a short record), two JSON objects on two lines, a line   *)
(* of text, the empty file.                                              *)
AppFiles ==
    { JSONFile(value) :
        value \in {ScenarioValue}
                  \cup { SampleValue(par, 0) :
                           par \in UNION {ParentVectors(n) : n \in 1..MaxAppNodes} } }
    \cup { CSVFile(SampleRecords(r, c)) : r \in 0..MaxAppRows, c \in ColumnCounts }
    \cup { CSVFile(<<<<Blank(1), Blank(1)>>, <<Blank(1)>>, <<Blank(1), Blank(2)>>>>),
           LinesFile(<<"object", "object">>),
           LinesFile(<<"other">>),
           EmptyFile }

FormatFlags == {"", TypeJSON, TypeJSONL, TypeCSV}

InitProgram(source, formatFlag) ==
    /\ model = [width |-> 0, height |-> 0, viewerType |-> "",
                isLoading |-> TRUE, errorMsg |-> ""]
    /\ jsonViewer = NilViewer
    /\ csvViewer = NilViewer
    /\ lastOp = "none"
    /\ prevOp = "none"
    /\ program = [source |-> source, formatFlag |-> formatFlag, cmd |-> "scheduled",
                  fileType |-> "", pending |-> NoMsg, quit |-> FALSE,
                  lastMsg |-> [type |-> "none", key |-> ""]]

InitApp ==
    \E file \in AppFiles : \E readError \in BOOLEAN : \E formatFlag \in FormatFlags :
        /\ readError => file = EmptyFile /\ formatFlag = ""
        /\ InitProgram([readError |-> readError, data |-> file], formatFlag)

NextApp ==
    \/ loadSourceCmd
    \/ Update_KeyMsg
    \/ Update_WindowSizeMsg
    \/ Update_FileLoadedMsg

SpecApp == InitApp /\ [][NextApp]_vars

(* Detection on files given line by line.  Short files take their lines  *)
(* from every kind and may be one JSON document spread over the lines    *)
(* when the first line is not itself a complete object; files of         *)
(* SampleLimit and SampleLimit + 1 lines take theirs from two kinds.     *)
(* CSV files have up to MaxLines records of one or two fields each.      *)
ShortLines ==
    UNION { { lines \in [1..n -> LineKinds] : lines[1] # "blank" /\ lines[n] # "blank" } :
            n \in 1..MaxLines }

LongLines ==
    UNION { [1..n -> {"object", "other"}] : n \in {SampleLimit, SampleLimit + 1} }

DetectFiles ==
    { LinesFile(lines) : lines \in (ShortLines \cup LongLines) \ {<<"object">>} }
    \cup { [LinesFile(lines) EXCEPT
              !.firstByte = b,
              !.json = [valid |-> TRUE,
                        value |-> SampleValue(<<0, 1>>, IF b = "{" THEN 0 ELSE 1)]] :
           lines \in {l \in ShortLines : l[1] \in {"brace", "other"} /\ Len(l) >= 2},
           b \in {"{", "["} }
    \cup { JSONFile(SampleValue(<<0, 1>>, p)) : p \in {0, 1} }
    \cup UNION { { CSVFile([i \in 1..n |-> [j \in 1..fields[i] |-> Blank(1)]]) :
                      fields \in [1..n -> {1, 2}] } : n \in 1..MaxLines }

InitDetect ==
    \E file \in DetectFiles : InitProgram([readError |-> FALSE, data |-> file], "")

NextDetect ==
    \/ loadSourceCmd
    \/ Update_FileLoadedMsg

SpecDetect == InitDetect /\ [][NextDetect]_vars

----------------------------------------------------------------------------
(* main: non-interactive mode *)

DefaultHeight == 30

MaxBatchNodes == 28
MaxBatchRows == 24

(* Documents of n nodes: an array of n - 1 values without children, and *)
(* the shapes where every node is the child of the one before and where *)
(* node i is the child of node i \div 2, as an object and as an array.   *)
BatchValues(n) ==
    { SampleValue([i \in 1..n |-> IF i = 1 THEN 0 ELSE 1], 1) }
    \cup { SampleValue(par, p) :
             par \in { [i \in 1..n |-> i - 1], [i \in 1..n |-> i \div 2] },
             p \in {0, 1} }

(* The inputs of the non-interactive runs: JSON documents of 1 to        *)
(* MaxBatchNodes nodes, tables of 0 to MaxBatchRows data rows, a table   *)
(* with a short record, a line of text and the empty input.              *)
BatchFiles ==
    { JSONFile(value) : value \in UNION {BatchValues(n) : n \in 1..MaxBatchNodes} }
    \cup { CSVFile(SampleRecords(r, c)) : r \in 0..MaxBatchRows, c \in ColumnCounts }
    \cup { CSVFile(<<<<Blank(1), Blank(1)>>, <<Blank(1)>>, <<Blank(1), Blank(2)>>>>),
           LinesFile(<<"other">>),
           EmptyFile }

(* Nothing written to standard output yet. *)
NoOutput == [none |-> TRUE]

(* The process before runNonInteractiveMode is called. *)
InitBatch ==
    \E file \in BatchFiles : \E readError \in BOOLEAN : \E formatFlag \in FormatFlags :
        /\ readError => file = EmptyFile /\ formatFlag = ""
        /\ jsonViewer = NilViewer
        /\ csvViewer = NilViewer
        /\ lastOp = "none"
        /\ prevOp = "none"
        /\ model = NoApp
        /\ program = [source |-> [readError |-> readError, data |-> file],
                      formatFlag |-> formatFlag, exit |-> "running", stdout |-> NoOutput]

(* runNonInteractiveMode: reads and parses the source; prints the error  *)
(* and exits with 1, or sets the default viewport on the viewer, prints  *)
(* what Render returns and returns to main, which exits with 0.          *)
runNonInteractiveMode ==
    /\ program # NoApp
    /\ program.exit = "running"
    /\ lastOp' = "runNonInteractiveMode"
    /\ prevOp' = lastOp
    /\ UNCHANGED model
    /\ IF program.source.readError
       THEN /\ program' = [program EXCEPT !.exit = "1",
                                          !.stdout = [error |-> "Error reading input"]]
            /\ UNCHANGED <<jsonViewer, csvViewer>>
       ELSE LET loaded == parseFile(program.source.data, program.formatFlag)
            IN  IF loaded.error # ""
                THEN /\ program' = [program EXCEPT !.exit = "1",
                                                   !.stdout = [error |-> loaded.error]]
                     /\ UNCHANGED <<jsonViewer, csvViewer>>
                ELSE IF loaded.viewerType \in {TypeJSON, TypeJSONL}
                THEN LET v == SetViewportHeight(loaded.jsonViewer,
                                                DefaultHeight - HeaderFooterSpace)
                     IN  /\ jsonViewer' = v
                         /\ csvViewer' = NilViewer
                         /\ program' = [program EXCEPT
                                           !.exit = "0",
                                           !.stdout = [tree |-> JSONViewer_Render(v)]]
                ELSE LET v == SetViewport(loaded.csvViewer,
                                          DefaultWidth - HeaderFooterSpace,
                                          DefaultHeight - CSVBorderSpace)
                     IN  /\ csvViewer' = v
                         /\ jsonViewer' = NilViewer
                         /\ program' = [program EXCEPT
                                           !.exit = "0",
                                           !.stdout = [table |-> CSVViewer_Render(v)]]

NextBatch == runNonInteractiveMode

SpecBatch == InitBatch /\ [][NextBatch]_vars

----------------------------------------------------------------------------
(* Properties of the tree viewer *)

NumNodes == Len(jsonViewer.root.Parent)

IsAncestor(root, a, n) == a \in AncestorsOrSelf(root.Parent, root.Parent[n])

(* n comes before m in the pre-order of the tree: n is an ancestor of m,  *)
(* or they lie in different child subtrees of some node, n's first.       *)
PreOrderBefore(root, n, m) ==
    /\ n # m
    /\ \/ IsAncestor(root, n, m)
       \/ \E p \in 1..Len(root.Parent) :
            \E i, j \in 1..Len(root.Children[p]) :
               /\ i < j
               /\ root.Children[p][i] \in AncestorsOrSelf(root.Parent, n)
               /\ root.Children[p][j] \in AncestorsOrSelf(root.Parent, m)

AllAncestorsExpanded(root, n) ==
    \A a \in 1..Len(root.Parent) : IsAncestor(root, a, n) => root.Expanded[a]

(* C1: in every reachable state of the tree viewer the cursor indexes the *)
(* visible-node list: 0 <= cursor < len(visibleNodes).                    *)
C1_CursorInvariant ==
    jsonViewer # NilViewer =>
        /\ 0 <= jsonViewer.cursor
        /\ jsonViewer.cursor < Len(jsonViewer.visibleNodes)

(* A rebuild shrank the list below the cursor and the cursor was clamped  *)
(* to the new last row.                                                   *)
C1_Witness ==
    /\ jsonViewer # NilViewer
    /\ lastOp \in {"JSONViewer.ToggleNode", "JSONViewer.CollapseAll"}
    /\ prevOp = "JSONViewer.MoveDown"
    /\ Len(jsonViewer.visibleNodes) < NumNodes
    /\ jsonViewer.cursor = Len(jsonViewer.visibleNodes) - 1

(* C2: ToggleNode flips the expanded flag of the node at the cursor iff   *)
(* that node has children, changes no other node's flag, and on a node    *)
(* without children leaves the whole viewer unchanged.                    *)
C2_ToggleFrame ==
    [][ lastOp' = "JSONViewer.ToggleNode" =>
          LET node == jsonViewer.visibleNodes[jsonViewer.cursor + 1]
              old  == jsonViewer.root.Expanded
              new  == jsonViewer'.root.Expanded
          IN  /\ \A m \in 1..NumNodes : m # node => new[m] = old[m]
              /\ (new[node] # old[node]) <=> HasChildren(jsonViewer.root, node)
              /\ ~HasChildren(jsonViewer.root, node) => jsonViewer' = jsonViewer
      ]_vars

(* ToggleNode has just collapsed a node that has children. *)
C2_Witness ==
    /\ jsonViewer # NilViewer
    /\ lastOp = "JSONViewer.ToggleNode"
    /\ jsonViewer.cursor < Len(jsonViewer.visibleNodes)
    /\ LET node == jsonViewer.visibleNodes[jsonViewer.cursor + 1]
       IN  /\ HasChildren(jsonViewer.root, node)
           /\ ~jsonViewer.root.Expanded[node]
           /\ \A m \in 1..NumNodes : m # node => jsonViewer.root.Expanded[m]

(* The list of a freshly constructed viewer: every node, in pre-order. *)
IsFullPreOrderList(root, list) ==
    /\ Len(list) = Len(root.Parent)
    /\ \A i, j \in 1..Len(list) : i < j => PreOrderBefore(root, list[i], list[j])

(* C3: the freshly constructed viewer lists every node in pre-order, and  *)
(* CollapseAll followed by ExpandAll yields that same list.               *)
C3_CollapseExpandRoundTrip ==
    jsonViewer # NilViewer =>
        /\ lastOp = "NewJSONViewer" =>
               IsFullPreOrderList(jsonViewer.root, jsonViewer.visibleNodes)
        /\ (prevOp = "JSONViewer.CollapseAll" /\ lastOp = "JSONViewer.ExpandAll") =>
               IsFullPreOrderList(jsonViewer.root, jsonViewer.visibleNodes)

(* CollapseAll then ExpandAll has run on a tree with inner nodes below    *)
(* the root.                                                              *)
C3_Witness ==
    /\ jsonViewer # NilViewer
    /\ prevOp = "JSONViewer.CollapseAll"
    /\ lastOp = "JSONViewer.ExpandAll"
    /\ \E n \in 2..NumNodes : HasChildren(jsonViewer.root, n)
    /\ Len(jsonViewer.visibleNodes) = NumNodes

(* C4: the visible-node list is exactly the nodes all of whose ancestors  *)
(* are expanded, each once, in the tree's pre-order.                      *)
C4_VisibleListExact ==
    jsonViewer # NilViewer =>
        LET list == jsonViewer.visibleNodes
            root == jsonViewer.root
        IN  /\ \A n \in 1..NumNodes :
                  AllAncestorsExpanded(root, n) <=> (\E i \in 1..Len(list) : list[i] = n)
            /\ \A i, j \in 1..Len(list) :
                  i < j => PreOrderBefore(root, list[i], list[j])

(* A rebuild after a toggle: an inner node below the root is collapsed,   *)
(* its subtree hidden, while a later sibling subtree is still listed.     *)
C4_Witness ==
    /\ jsonViewer # NilViewer
    /\ lastOp = "JSONViewer.ToggleNode"
    /\ \E n \in 2..NumNodes :
          /\ HasChildren(jsonViewer.root, n)
          /\ ~jsonViewer.root.Expanded[n]
          /\ \E i \in 1..(Len(jsonViewer.visibleNodes) - 1) :
                 /\ jsonViewer.visibleNodes[i] = n
                 /\ jsonViewer.visibleNodes[i + 1] > n

(* C5: with height h >= 1, after MoveUp, MoveDown or SetViewportHeight    *)
(* the cursor is inside [viewportY, viewportY+h-1], and the scroll is     *)
(* minimal: unchanged origin if the cursor was inside the window, origin  *)
(* = cursor if it was above, origin = cursor-h+1 if it was below.         *)
C5_MinimalScroll ==
    [][ ( /\ lastOp' \in {"JSONViewer.MoveUp", "JSONViewer.MoveDown",
                          "JSONViewer.SetViewportHeight"}
          /\ jsonViewer'.viewportHeight >= 1 ) =>
          LET c == jsonViewer'.cursor
              h == jsonViewer'.viewportHeight
              y == jsonViewer.viewportY
              z == jsonViewer'.viewportY
          IN  /\ z <= c /\ c <= z + h - 1
              /\ (y <= c /\ c <= y + h - 1) => z = y
              /\ c < y => z = c
              /\ c > y + h - 1 => z = c - h + 1
      ]_vars

(* MoveDown has scrolled the window down: the cursor is on its last row. *)
C5_Witness ==
    /\ jsonViewer # NilViewer
    /\ lastOp = "JSONViewer.MoveDown"
    /\ jsonViewer.viewportHeight >= 2
    /\ jsonViewer.viewportY > 0
    /\ jsonViewer.cursor = jsonViewer.viewportY + jsonViewer.viewportHeight - 1

----------------------------------------------------------------------------
(* Properties of the table model and the table viewer *)

Data == csvViewer.data

StrLeq(a, b) == ~StrLess(b, a)

IsSortOp(op) == op \in {"CSVData.SortByColumn", "CSVViewer.SortByCurrentColumn"}

(* rows are in ascending / descending order of the cell at column c. *)
SortedAscending(rows, c) ==
    \A i, j \in 1..Len(rows) : i < j => StrLeq(rows[i][c + 1], rows[j][c + 1])

SortedDescending(rows, c) ==
    \A i, j \in 1..Len(rows) : i < j => StrLeq(rows[j][c + 1], rows[i][c + 1])

(* C6: after an ascending sort on column c the rows are in ascending      *)
(* bytewise order of their cell c, and an ascending sort on c again       *)
(* leaves the row order unchanged.                                        *)
C6_AscendingSortIdempotent ==
    (csvViewer # NilViewer /\ Data.SortColumn >= 0 /\ Data.SortAsc) =>
        /\ SortedAscending(Data.Rows, Data.SortColumn)
        /\ SortByColumn(Data, Data.SortColumn, TRUE).Rows = Data.Rows

(* The scenario table after the ascending sort on column 1: the row with  *)
(* the smaller column-1 cell first, the column-0 cells out of order.      *)
C6_Witness ==
    /\ csvViewer # NilViewer
    /\ lastOp = "CSVData.SortByColumn"
    /\ Data.SortColumn = 1 /\ Data.SortAsc
    /\ Data.Rows = << << <<2>>, <<1>> >>, << <<1>>, <<2>> >> >>

(* C7: SortByCurrentColumn flips the direction when the sort column is    *)
(* the cursor column and otherwise sorts the cursor column ascending; the *)
(* rows end up in the order of the resulting direction.                   *)
C7_SortDirectionProtocol ==
    [][ lastOp' = "CSVViewer.SortByCurrentColumn" =>
          LET c == csvViewer.cursorCol
          IN  /\ Data'.SortColumn = c
              /\ Data'.SortAsc = (IF Data.SortColumn = c THEN ~Data.SortAsc ELSE TRUE)
              /\ Data.SortColumn = -1 => Data'.SortAsc
              /\ IF Data'.SortAsc THEN SortedAscending(Data'.Rows, c)
                                  ELSE SortedDescending(Data'.Rows, c)
      ]_vars

(* A second press on the same column: three rows in strictly descending   *)
(* order of the cursor column.                                            *)
C7_Witness ==
    /\ csvViewer # NilViewer
    /\ lastOp = "CSVViewer.SortByCurrentColumn"
    /\ Data.SortColumn = csvViewer.cursorCol /\ ~Data.SortAsc
    /\ Len(Data.Rows) = 3
    /\ \A i \in 1..2 : StrLess(Data.Rows[i + 1][Data.SortColumn + 1],
                               Data.Rows[i][Data.SortColumn + 1])

(* The comparison key of a row: its cell at column c, the empty string    *)
(* when the row has no such cell.                                         *)
SortKey(row, c) == IF c < Len(row) THEN row[c + 1] ELSE <<>>

MaxOf(S) == CHOOSE x \in S : \A y \in S : y <= x

(* max(len(header)+4, maxCellLen+2) of column i (1-based). *)
RawWidth(data, i) ==
    MaxOf({Len(data.Headers[i]) + 4}
          \cup {Len(data.Rows[r][i]) + 2 :
                  r \in {q \in 1..Len(data.Rows) : i <= Len(data.Rows[q])}})

ClampedEven(w, lo, hi) ==
    LET c == IF w < lo THEN lo ELSE IF w > hi THEN hi ELSE w
    IN  c + (c % 2)

(* C9: every computed column width is even, lies in [10, columnMaxWidth]  *)
(* (= 30) and equals max(len(header)+4, maxCellLen+2) clamped to that     *)
(* range and rounded up to the next even number.                          *)
C9_ColumnWidths ==
    csvViewer # NilViewer =>
        /\ csvViewer.columnMaxWidth = 30
        /\ Len(csvViewer.columnWidths) = Len(Data.Headers)
        /\ \A i \in 1..Len(Data.Headers) :
              LET w == csvViewer.columnWidths[i]
              IN  /\ 10 <= w /\ w <= csvViewer.columnMaxWidth
                  /\ w % 2 = 0
                  /\ w = ClampedEven(RawWidth(Data, i), 10, csvViewer.columnMaxWidth)

(* One column rounded up from an odd in-range width given by its header,  *)
(* another capped at the maximum by a long cell.                          *)
C9_Witness ==
    /\ csvViewer # NilViewer
    /\ Len(Data.Headers) = 2 /\ Len(Data.Rows) = 2
    /\ Len(Data.Headers[1]) = 7 /\ csvViewer.columnWidths[1] = 12
    /\ \E r \in 1..2 : Len(Data.Rows[r][2]) = 29
    /\ csvViewer.columnWidths[2] = 30

(* C10: on a table with C >= 1 columns, 0 <= cursorRow <= rowCount and    *)
(* 0 <= cursorCol <= C-1 in every reachable state, and a move at a bound  *)
(* leaves the cursor unchanged.                                           *)
C10_TableCursorBounds ==
    /\ [](( csvViewer # NilViewer /\ Len(Data.Headers) >= 1 ) =>
            /\ 0 <= csvViewer.cursorRow /\ csvViewer.cursorRow <= Len(Data.Rows)
            /\ 0 <= csvViewer.cursorCol /\ csvViewer.cursorCol <= Len(Data.Headers) - 1)
    /\ [][ /\ (lastOp' = "CSVViewer.MoveUp" /\ csvViewer.cursorRow = 0)
              => csvViewer'.cursorRow = 0
           /\ (lastOp' = "CSVViewer.MoveDown" /\ csvViewer.cursorRow = Len(Data.Rows))
              => csvViewer'.cursorRow = csvViewer.cursorRow
           /\ (lastOp' = "CSVViewer.MoveLeft" /\ csvViewer.cursorCol = 0)
              => csvViewer'.cursorCol = 0
           /\ (lastOp' = "CSVViewer.MoveRight"
                 /\ csvViewer.cursorCol = Len(Data.Headers) - 1)
              => csvViewer'.cursorCol = csvViewer.cursorCol
         ]_vars

(* The cursor on the last column and one past the last data row. *)
C10_Witness ==
    /\ csvViewer # NilViewer
    /\ lastOp = "CSVViewer.MoveDown"
    /\ Len(Data.Headers) = 2 /\ Len(Data.Rows) >= 2
    /\ csvViewer.cursorRow = Len(Data.Rows)
    /\ csvViewer.cursorCol = Len(Data.Headers) - 1

(* C11: with viewport height h >= 2 the row cursor lies in                *)
(* [viewportY, viewportY+h-2] after MoveUp, MoveDown and SetViewport; the *)
(* origin becomes cursorRow when the cursor went above the window and     *)
(* cursorRow-h+2 when it went below.                                      *)
C11_TableVerticalScroll ==
    [][ ( /\ lastOp' \in {"CSVViewer.MoveUp", "CSVViewer.MoveDown",
                          "CSVViewer.SetViewport"}
          /\ csvViewer'.viewportHeight >= 2 ) =>
          LET c == csvViewer'.cursorRow
              h == csvViewer'.viewportHeight
              y == csvViewer.viewportY
              z == csvViewer'.viewportY
          IN  /\ z <= c /\ c <= z + h - 2
              /\ c < y => z = c
              /\ c > y + h - 2 => z = c - h + 2
      ]_vars

(* MoveDown has scrolled a two-row window down by one row. *)
C11_Witness ==
    /\ csvViewer # NilViewer
    /\ lastOp = "CSVViewer.MoveDown"
    /\ csvViewer.viewportHeight = 3
    /\ csvViewer.viewportY >= 1
    /\ csvViewer.cursorRow = csvViewer.viewportY + 1

(* C12: in every reachable state of a parsed table columnVisibility has   *)
(* one entry per header.                                                  *)
C12_VisibilityLength ==
    csvViewer # NilViewer => Len(Data.ColumnVisibility) = Len(Data.Headers)

(* A two-column table after a sort and a toggle that hid column 1. *)
C12_Witness ==
    /\ csvViewer # NilViewer
    /\ lastOp = "CSVViewer.ToggleColumnVisibility"
    /\ Len(Data.Headers) = 2 /\ Len(Data.Rows) = 3
    /\ Data.SortColumn = 0
    /\ Data.ColumnVisibility = <<TRUE, FALSE>>

(* C13: ToggleColumnVisibility flips the visibility of the cursor column  *)
(* and changes nothing else in the data or the viewer; a second toggle    *)
(* restores the state before the first.                                   *)
C13_ToggleVisibilityFrame ==
    [][ lastOp' = "CSVViewer.ToggleColumnVisibility" =>
          LET col == csvViewer.cursorCol + 1
          IN  /\ Len(Data.Headers) >= 1 =>
                    /\ Data'.ColumnVisibility[col] = ~Data.ColumnVisibility[col]
                    /\ \A i \in 1..Len(Data.Headers) :
                          i # col => Data'.ColumnVisibility[i] = Data.ColumnVisibility[i]
              /\ [Data' EXCEPT !.ColumnVisibility = Data.ColumnVisibility] = Data
              /\ [csvViewer' EXCEPT !.data = Data] = csvViewer
              /\ [csvViewer' EXCEPT !.data =
                    ToggleColumnVisibility(Data', csvViewer'.cursorCol)] = csvViewer
      ]_vars

(* The toggle has just shown again column 1 of a sorted table, the cursor *)
(* away from the first row, the other column hidden.                      *)
C13_Witness ==
    /\ csvViewer # NilViewer
    /\ lastOp = "CSVViewer.ToggleColumnVisibility"
    /\ csvViewer.cursorCol = 1 /\ csvViewer.cursorRow >= 1
    /\ Data.SortColumn = 1
    /\ Data.ColumnVisibility = <<FALSE, TRUE>>

(* The cell shows the text: the text, possibly followed by a sort         *)
(* indicator, either whole or cut to a prefix followed by "...".          *)
ShowsText(content, text) ==
    \E ind \in {<<>>, SortAscIndicator, SortDescIndicator} :
        LET full == text \o ind
        IN  \/ content = full
            \/ \E k \in 0..Len(full) : content = SubSeq(full, 1, k) \o Ellipsis

(* The line has one cell per column, in column order: the collapsed       *)
(* indicator for a hidden column, the column's text for a visible one.    *)
LineShowsColumns(line, texts) ==
    /\ Len(line) = Len(Data.Headers)
    /\ \A i \in 1..Len(line) :
          /\ line[i].collapsed <=> ~Data.ColumnVisibility[i]
          /\ line[i].collapsed =>
                line[i].content = CollapsedColumn /\ line[i].width = CollapsedColumnWidth
          /\ ~line[i].collapsed => ShowsText(line[i].content, texts[i])

(* C14: the header line and every rendered data row hold exactly one cell *)
(* per column, in column order; the cell of column i is the collapsed     *)
(* indicator iff columnVisibility[i] is false and the header or cell text *)
(* otherwise.                                                             *)
C14_HiddenColumnsRendered ==
    csvViewer # NilViewer =>
        LET out == CSVViewer_Render(csvViewer)
        IN  /\ LineShowsColumns(out.header, Data.Headers)
            /\ \A k \in 1..Len(out.rows) :
                  LineShowsColumns(out.rows[k], Data.Rows[csvViewer.viewportY + k])

(* Column 0 of a two-column table has just been hidden and two data rows  *)
(* are rendered below the header.                                         *)
C14_Witness ==
    /\ csvViewer # NilViewer
    /\ lastOp = "CSVViewer.ToggleColumnVisibility"
    /\ Data.ColumnVisibility = <<FALSE, TRUE>>
    /\ csvViewer.cursorCol = 0
    /\ Len(CSVViewer_Render(csvViewer).rows) = 2
    /\ CSVViewer_Render(csvViewer).rows[2][1].collapsed

(* C15: a collapsed object or array is rendered "{ N items }" or          *)
(* "[ N items ]" with N its number of children and the singular "item"    *)
(* exactly when N = 1; an expanded one is rendered "{" or "[".            *)
C15_CollapsedContainerText ==
    jsonViewer # NilViewer =>
        \A i \in 1..Len(jsonViewer.visibleNodes) :
            LET root == jsonViewer.root
                node == jsonViewer.visibleNodes[i]
                N == Len(root.Children[node])
                items == ToString(N) \o (IF N = 1 THEN " item" ELSE " items")
                text == formatNode(root, node).value
            IN  /\ root.Type[node] = "NodeObject" =>
                       text = (IF root.Expanded[node] THEN "{" ELSE "{ " \o items \o " }")
                /\ root.Type[node] = "NodeArray" =>
                       text = (IF root.Expanded[node] THEN "[" ELSE "[ " \o items \o " ]")

(* The root, an object with one child, has been collapsed after its     *)
(* child, an array of two, and is listed as "{ 1 item }".                 *)
C15_Witness ==
    /\ jsonViewer # NilViewer
    /\ lastOp = "JSONViewer.ToggleNode"
    /\ jsonViewer.root.Parent = <<0, 1, 2, 2>>
    /\ jsonViewer.root.Type[1] = "NodeObject" /\ jsonViewer.root.Type[2] = "NodeArray"
    /\ ~jsonViewer.root.Expanded[1] /\ ~jsonViewer.root.Expanded[2]
    /\ jsonViewer.visibleNodes = <<1>>
    /\ formatNode(jsonViewer.root, 1).value = "{ 1 item }"
    /\ formatNode(jsonViewer.root, 2).value = "[ 2 items ]"

IsScenario == jsonViewer # NilViewer /\ jsonViewer.root.Key = <<"root", "a", "b", "", "">>

(* C16: the freshly constructed viewer has every node expanded, lists     *)
(* every node in pre-order and has cursor 0 on the root; for              *)
(* {"a":1,"b":[1,2]} the root shows two children, and after the cursor    *)
(* has been moved onto b and b toggled exactly root, a, b are listed and  *)
(* b is rendered as a collapsed array of 2 items.                         *)
C16_InitiallyExpanded ==
    jsonViewer # NilViewer =>
        /\ lastOp = "NewJSONViewer" =>
              /\ \A n \in 1..NumNodes : jsonViewer.root.Expanded[n]
              /\ IsFullPreOrderList(jsonViewer.root, jsonViewer.visibleNodes)
              /\ jsonViewer.cursor = 0
              /\ jsonViewer.visibleNodes[1] = 1
        /\ (IsScenario /\ lastOp = "NewJSONViewer") =>
              /\ jsonViewer.root.Children[1] = <<2, 3>>
              /\ jsonViewer.visibleNodes = <<1, 2, 3, 4, 5>>
        /\ ( /\ IsScenario
             /\ lastOp = "JSONViewer.ToggleNode"
             /\ jsonViewer.cursor = 2
             /\ jsonViewer.root.Expanded = <<TRUE, TRUE, FALSE, TRUE, TRUE>> ) =>
              /\ jsonViewer.visibleNodes = <<1, 2, 3>>
              /\ formatNode(jsonViewer.root, 3) =
                    [key |-> "\"b\"", separator |-> ":   ", value |-> "[ 2 items ]"]

(* In the scenario document the cursor went down to b and b was toggled. *)
C16_Witness ==
    /\ IsScenario
    /\ prevOp = "JSONViewer.MoveDown" /\ lastOp = "JSONViewer.ToggleNode"
    /\ jsonViewer.cursor = 2
    /\ jsonViewer.root.Expanded = <<TRUE, TRUE, FALSE, TRUE, TRUE>>
    /\ Len(jsonViewer.visibleNodes) = 3

----------------------------------------------------------------------------
(* Properties of the application *)

IsKeyStep == program'.lastMsg.type = "KeyMsg"

(* C17: while isLoading holds, a key other than q and ctrl+c leaves the   *)
(* model and both viewers unchanged and calls no viewer method; q and     *)
(* ctrl+c quit.                                                           *)
C17_KeysIgnoredWhileLoading ==
    [][ (program # NoApp /\ model.isLoading /\ IsKeyStep) =>
          IF program'.lastMsg.key \in {"q", "ctrl+c"}
          THEN program'.quit
          ELSE /\ ~program'.quit
               /\ model' = model
               /\ jsonViewer' = jsonViewer
               /\ csvViewer' = csvViewer
               /\ lastOp' = "none"
      ]_vars

(* The "down" key was pressed after a resize while the loaded tree viewer *)
(* was still in flight to Update.                                         *)
C17_Witness ==
    /\ program # NoApp
    /\ model.isLoading
    /\ program.lastMsg = [type |-> "KeyMsg", key |-> "down"]
    /\ model.height > HeaderFooterSpace
    /\ program.pending # NoMsg
    /\ program.pending.jsonViewer # NilViewer

(* C18: a FileLoadedMsg that carries an error sets the error message and  *)
(* creates no viewer; from then on the error view is shown, both viewers  *)
(* are nil, viewerType is empty, no load is started or delivered again,   *)
(* and a key other than q and ctrl+c changes nothing.                     *)
C18_LoadFailureTerminal ==
    /\ [](  (program # NoApp /\ model.errorMsg # "") =>
               /\ View(model) = "renderError"
               /\ jsonViewer = NilViewer /\ csvViewer = NilViewer
               /\ model.viewerType = ""
               /\ program.cmd = "done" /\ program.pending = NoMsg )
    /\ [][ /\ ( /\ program # NoApp
                /\ program.pending # NoMsg
                /\ program.pending.error # ""
                /\ program'.lastMsg.type = "FileLoadedMsg"
                /\ program'.pending = NoMsg ) => model'.errorMsg # ""
           /\ (program # NoApp /\ model.errorMsg # "") =>
                 /\ model'.errorMsg = model.errorMsg
                 /\ program'.cmd = program.cmd /\ program'.pending = program.pending
                 /\ program'.lastMsg.type # "FileLoadedMsg"
                 /\ (IsKeyStep /\ program'.lastMsg.key \notin {"q", "ctrl+c"}) =>
                        /\ model' = model /\ ~program'.quit
                        /\ lastOp' = "none"
       ]_vars

(* A file detected as CSV failed to parse; afterwards the terminal was    *)
(* resized and the "s" key pressed.                                       *)
C18_Witness ==
    /\ program # NoApp
    /\ model.errorMsg = "Error: failed to parse CSV"
    /\ program.fileType = TypeCSV /\ program.formatFlag = ""
    /\ model.height > CSVBorderSpace
    /\ program.lastMsg = [type |-> "KeyMsg", key |-> "s"]

(* C19: every input that detection classifies as jsonl is loaded into a   *)
(* tree viewer, without an error.                                         *)
C19_JSONLLoads ==
    ( /\ program # NoApp
      /\ program.formatFlag = ""
      /\ program.fileType = TypeJSONL
      /\ ~model.isLoading ) =>
        /\ model.errorMsg = ""
        /\ jsonViewer # NilViewer

(* The non-empty lines among the sampled ones, and those that are a JSON  *)
(* object.                                                                *)
SampledLines(lines) == 1..(IF Len(lines) < SampleLimit THEN Len(lines) ELSE SampleLimit)
NonEmptySampled(lines) == {i \in SampledLines(lines) : lines[i] # "blank"}
ObjectsSampled(lines) == {i \in SampledLines(lines) : lines[i] = "object"}

(* C20: content that is not one valid JSON document is detected as jsonl  *)
(* iff at least half of the non-empty lines among its first 10 lines are  *)
(* JSON objects.                                                          *)
C20_JSONLThreshold ==
    ( /\ program # NoApp
      /\ program.cmd = "done"
      /\ program.formatFlag = ""
      /\ ~program.source.readError
      /\ ~program.source.data.json.valid
      /\ Len(program.source.data.lines) >= 1 ) =>
        LET lines == program.source.data.lines
        IN  program.fileType = TypeJSONL <=>
               2 * Cardinality(ObjectsSampled(lines)) >= Cardinality(NonEmptySampled(lines))

(* The records the variable-field-count CSV reader returns for the input, *)
(* and how many of them have two fields or more.                          *)
LooseRecords == program.source.data.csv.records
ValidRows == Cardinality({i \in 1..Len(LooseRecords) : Len(LooseRecords[i]) >= 2})

(* Content was given to detection, was detected neither as json nor as    *)
(* jsonl, and the variable-field-count CSV reader accepted it.            *)
ReachedCSVDetection ==
    /\ program # NoApp
    /\ program.cmd = "done"
    /\ program.formatFlag = ""
    /\ ~program.source.readError
    /\ Len(program.source.data.lines) >= 1
    /\ program.fileType \notin {TypeJSON, TypeJSONL}
    /\ ~program.source.data.csv.err

(* C21 as stated: such content is detected as csv iff more than half of   *)
(* its records have at least two fields, whatever the number of records,  *)
(* and as unknown otherwise.                                              *)
C21_CSVThresholdAnyCount ==
    ReachedCSVDetection =>
        /\ program.fileType \in {TypeCSV, TypeUnknown}
        /\ program.fileType = TypeCSV <=> 2 * ValidRows > Len(LooseRecords)

(* C21: such content is detected as csv iff it has at least two records   *)
(* and more than half of them have at least two fields, and as unknown    *)
(* otherwise; a single record is never detected as csv.                   *)
C21_CSVThreshold ==
    ReachedCSVDetection =>
        /\ program.fileType \in {TypeCSV, TypeUnknown}
        /\ program.fileType = TypeCSV <=>
              (Len(LooseRecords) >= 2 /\ 2 * ValidRows > Len(LooseRecords))

(* Three records, one of them with a single field, were detected as csv.  *)
C21_Witness ==
    /\ ReachedCSVDetection
    /\ Len(LooseRecords) = 3 /\ ValidRows = 2
    /\ program.fileType = TypeCSV

(* The load command parsed the input as CSV: its message carries the     *)
(* table viewer built on the parse result.                               *)
ParsedCSV ==
    /\ program # NoApp
    /\ program.pending # NoMsg
    /\ program.pending.csvViewer # NilViewer

(* C22: for input of n >= 1 records the parse result has record 0 as its  *)
(* headers, records 1..n-1 in input order as its rows, one visibility     *)
(* entry per header, all true, and sort column -1.                        *)
C22_ParseShape ==
    (ParsedCSV /\ Len(program.source.data.csv.records) >= 1) =>
        LET records == program.source.data.csv.records
            n == Len(records)
            d == program.pending.csvViewer.data
        IN  /\ d.Headers = records[1]
            /\ Len(d.Rows) = n - 1
            /\ \A k \in 1..(n - 1) : d.Rows[k] = records[k + 1]
            /\ Len(d.ColumnVisibility) = Len(d.Headers)
            /\ \A i \in 1..Len(d.ColumnVisibility) : d.ColumnVisibility[i]
            /\ d.SortColumn = -1

(* Three records of two fields were parsed; the two data rows differ.     *)
C22_Witness ==
    /\ ParsedCSV
    /\ Len(program.source.data.csv.records) = 3
    /\ Len(program.pending.csvViewer.data.Headers) = 2
    /\ Len(program.pending.csvViewer.data.Rows) = 2
    /\ program.pending.csvViewer.data.Rows[1] # program.pending.csvViewer.data.Rows[2]

(* Update handles the key press "key" with a tree viewer loaded, or with  *)
(* a table viewer loaded.                                                 *)
JSONKeyStep(key) ==
    /\ program # NoApp
    /\ jsonViewer # NilViewer
    /\ model.viewerType \in {TypeJSON, TypeJSONL}
    /\ program'.lastMsg = [type |-> "KeyMsg", key |-> key]

CSVKeyStep(key) ==
    /\ program # NoApp
    /\ csvViewer # NilViewer
    /\ model.viewerType = TypeCSV
    /\ program'.lastMsg = [type |-> "KeyMsg", key |-> key]

(* C23: with a tree viewer loaded, the key c collapses all nodes and the  *)
(* key e expands all nodes.                                               *)
C23_CollapseExpandKeys ==
    [][ /\ JSONKeyStep("c") => jsonViewer' = CollapseAll(jsonViewer)
        /\ JSONKeyStep("e") => jsonViewer' = ExpandAll(jsonViewer) ]_vars

(* C24: k and j move the cursor as up and down do in both viewers, h and  *)
(* l move the column cursor as left and right do in the table viewer.     *)
C24_ViKeysNavigate ==
    [][ /\ JSONKeyStep("k") => jsonViewer' = MoveUp(jsonViewer)
        /\ JSONKeyStep("j") => jsonViewer' = MoveDown(jsonViewer)
        /\ CSVKeyStep("k") => csvViewer' = MoveUpCSV(csvViewer)
        /\ CSVKeyStep("j") => csvViewer' = MoveDownCSV(csvViewer)
        /\ CSVKeyStep("h") => csvViewer' = MoveLeft(csvViewer)
        /\ CSVKeyStep("l") => csvViewer' = MoveRight(csvViewer) ]_vars

(* C25: with a table viewer loaded, the key v toggles the visibility of   *)
(* the column under the cursor.                                           *)
C25_VisibilityKey ==
    [][ CSVKeyStep("v") => csvViewer' = ToggleColumnVisibilityCSV(csvViewer) ]_vars

(* C26: Render reads no list out of range, in either viewer and for any   *)
(* viewport height: viewportY is never negative, every index into         *)
(* visibleNodes and into the rows that Render uses is within bounds, and  *)
(* the column loop over the headers stays within columnVisibility and     *)
(* columnWidths.                                                          *)
C26_RenderInRange ==
    /\ jsonViewer # NilViewer =>
          /\ jsonViewer.viewportY >= 0
          /\ \A k \in 1..Len(JSONViewer_Render(jsonViewer)) :
                /\ JSONViewer_Render(jsonViewer)[k].i >= 0
                /\ JSONViewer_Render(jsonViewer)[k].i < Len(jsonViewer.visibleNodes)
    /\ csvViewer # NilViewer =>
          /\ csvViewer.viewportY >= 0
          /\ \A rowIdx \in CSVViewer_RenderRowIndices(csvViewer) :
                rowIdx >= 0 /\ rowIdx < Len(csvViewer.data.Rows)
          /\ \A i \in 0..(Len(csvViewer.data.Headers) - 1) :
                /\ i < Len(csvViewer.data.ColumnVisibility)
                /\ i < Len(csvViewer.columnWidths)

(* A table was loaded before the first resize (viewport height -6) and    *)
(* the cursor was moved down to rowCount.                                 *)
C26_Witness ==
    /\ program # NoApp
    /\ csvViewer # NilViewer
    /\ csvViewer.viewportHeight = 0 - CSVBorderSpace
    /\ Len(csvViewer.data.Rows) >= 1
    /\ csvViewer.cursorRow = Len(csvViewer.data.Rows)
    /\ csvViewer.viewportY > Len(csvViewer.data.Rows)

(* C27: with a viewport height of at least 1 the tree viewport contains   *)
(* the cursor after every operation, and Render emits the cursor's line.  *)
C27_TreeViewportSynchronized ==
    (jsonViewer # NilViewer /\ jsonViewer.viewportHeight >= 1) =>
        /\ jsonViewer.viewportY <= jsonViewer.cursor
        /\ jsonViewer.cursor < jsonViewer.viewportY + jsonViewer.viewportHeight
        /\ \E k \in 1..Len(JSONViewer_Render(jsonViewer)) :
              JSONViewer_Render(jsonViewer)[k].selected

(* C28: with a viewport height of at least 3, a table cursor on a data    *)
(* row is inside the window of viewportHeight - 2 rows that starts at     *)
(* viewportY, and Render emits that row.                                  *)
C28_CursorRowRendered ==
    ( /\ csvViewer # NilViewer
      /\ csvViewer.viewportHeight >= 3
      /\ csvViewer.cursorRow < Len(csvViewer.data.Rows) ) =>
        /\ csvViewer.viewportY <= csvViewer.cursorRow
        /\ csvViewer.cursorRow < csvViewer.viewportY + csvViewer.viewportHeight - 2
        /\ csvViewer.cursorRow \in CSVViewer_RenderRowIndices(csvViewer)

RECURSIVE SumOfWidths(_)
(* The total width of the cells of a rendered line. *)
SumOfWidths(cells) ==
    IF cells = <<>> THEN 0 ELSE Head(cells).width + SumOfWidths(Tail(cells))

(* C29: the columns Render emits are a window set by the horizontal       *)
(* viewport: when the viewport, of positive width, is narrower than the   *)
(* columns together, fewer than all C columns are rendered.               *)
C29_ColumnWindow ==
    ( /\ csvViewer # NilViewer
      /\ csvViewer.viewportWidth >= 1
      /\ csvViewer.viewportWidth < SumOfWidths(createHeaderRow(csvViewer)) ) =>
        Len(createHeaderRow(csvViewer)) < Len(csvViewer.data.Headers)

(* C30: the column widths are those NewCSVViewer computed, and no later   *)
(* operation (resize, visibility toggle, sort, cursor move) changes them. *)
C30_ColumnWidthsFixed ==
    /\ [](csvViewer # NilViewer =>
             csvViewer.columnWidths = NewCSVViewer(csvViewer.data).columnWidths)
    /\ [][csvViewer # NilViewer => csvViewer'.columnWidths = csvViewer.columnWidths]_vars

(* A two-column table was sorted, had a column hidden, and was then       *)
(* resized to a viewport narrower than its columns, the cursor being on   *)
(* the last row and the last column.                                      *)
C30_Witness ==
    /\ csvViewer # NilViewer
    /\ lastOp = "CSVViewer.SetViewport"
    /\ Len(csvViewer.columnWidths) = 2
    /\ csvViewer.viewportWidth = MinColumnWidth
    /\ csvViewer.data.SortColumn >= 0
    /\ \E i \in 1..2 : ~csvViewer.data.ColumnVisibility[i]
    /\ csvViewer.cursorCol = 1
    /\ csvViewer.cursorRow >= 1

(* The ancestor of node at the given depth (the root has depth 0), or the *)
(* node itself when that is its own depth.                                *)
AncestorOrSelfAt(root, node, depth) ==
    (ancestry(root, node) \o <<node>>)[depth + 1]

(* Node c is the last child of its parent. *)
IsLastChild(root, c) ==
    LET children == root.Children[root.Parent[c]]
    IN  children[Len(children)] = c

(* C31: each indentation marker on the line of a visible node is the pipe *)
(* if the node's ancestor (or the node itself) at the marker's level is   *)
(* not the last child of its parent, and blank padding if it is, at every *)
(* level of the ancestor chain.                                           *)
C31_TreeIndentation ==
    jsonViewer # NilViewer =>
        \A k \in 1..Len(jsonViewer.visibleNodes) :
            LET root == jsonViewer.root
                node == jsonViewer.visibleNodes[k]
                branches == getIndentation(root, node).branches
            IN  \A i \in 1..Len(branches) :
                    branches[i] = "empty" <=>
                        IsLastChild(root, AncestorOrSelfAt(root, node, i + 1))

(* C32: on the line of a visible node the key prefix is omitted only for  *)
(* the root of the tree and for nodes with an empty key; every other node *)
(* is rendered with its quoted key and the separator.                     *)
C32_KeyPrefix ==
    jsonViewer # NilViewer =>
        \A k \in 1..Len(jsonViewer.visibleNodes) :
            LET root == jsonViewer.root
                node == jsonViewer.visibleNodes[k]
                line == formatNode(root, node)
            IN  IF root.Parent[node] = 0 \/ root.Key[node] = ""
                THEN line.key = "" /\ line.separator = ""
                ELSE /\ line.key = "\"" \o root.Key[node] \o "\""
                     /\ line.separator = ": " \o valuePadding

(* The last Len(suffix) bytes of content are suffix. *)
EndsWith(content, suffix) ==
    /\ Len(content) >= Len(suffix)
    /\ SubSeq(content, Len(content) - Len(suffix) + 1, Len(content)) = suffix

(* C33: whenever the sort column is visible, its rendered header text     *)
(* ends with the sort-direction glyph, the ascending one iff SortAsc.     *)
C33_SortGlyphShown ==
    ( /\ csvViewer # NilViewer
      /\ Data.SortColumn >= 0
      /\ Data.ColumnVisibility[Data.SortColumn + 1] ) =>
        LET text == createHeaderRow(csvViewer)[Data.SortColumn + 1].content
        IN  IF Data.SortAsc THEN EndsWith(text, SortAscIndicator)
            ELSE EndsWith(text, SortDescIndicator)

(* The text of header i (1-based) before truncation: the header, with the *)
(* sort indicator appended on the sort column.                            *)
HeaderText(i) ==
    IF i - 1 = Data.SortColumn
    THEN Data.Headers[i] \o (IF Data.SortAsc THEN SortAscIndicator ELSE SortDescIndicator)
    ELSE Data.Headers[i]

(* rendered is content truncated for a cell of width w: unchanged up to   *)
(* w - 2 bytes, else cut at a bound w - 5 inside the content, followed by *)
(* "...", w - 2 bytes in all.                                             *)
TruncatedTo(rendered, content, w) ==
    IF Len(content) <= w - 2 THEN rendered = content
    ELSE /\ 0 <= w - 5 /\ w - 5 <= Len(content)
         /\ rendered = SubSeq(content, 1, w - 5) \o <<46, 46, 46>>
         /\ Len(rendered) = w - 2

(* C34: every visible header and cell is rendered truncated to its        *)
(* column's width, and the cut is always inside the content.              *)
C34_TruncationFits ==
    csvViewer # NilViewer =>
        \A i \in 1..Len(Data.Headers) :
            Data.ColumnVisibility[i] =>
                /\ TruncatedTo(createHeaderRow(csvViewer)[i].content, HeaderText(i),
                               csvViewer.columnWidths[i])
                /\ \A r \in 1..Len(Data.Rows) :
                      TruncatedTo(createDataRow(csvViewer, r - 1)[i].content,
                                  Data.Rows[r][i], csvViewer.columnWidths[i])

(* A header of 28 bytes with the sort glyph and a cell of 29 bytes, both  *)
(* cut for a column of width 30, next to an empty header with the glyph   *)
(* in a column of width 10.                                               *)
C34_Witness ==
    /\ csvViewer # NilViewer
    /\ Len(Data.Headers) = 2 /\ Len(Data.Rows) = 1
    /\ Data.ColumnVisibility[1] /\ Data.ColumnVisibility[2]
    /\ Len(Data.Headers[1]) = 28 /\ Len(Data.Rows[1][1]) = 29
    /\ Data.SortColumn = 0
    /\ Len(createHeaderRow(csvViewer)[1].content) = 28
    /\ Len(createDataRow(csvViewer, 0)[1].content) = 28
    /\ Len(Data.Headers[2]) = 0 /\ csvViewer.columnWidths[2] = 10

(* The viewers Update holds when the FileLoadedMsg of the input is        *)
(* handled after a resize to the given size, i.e. with that size stored   *)
(* in the model.                                                          *)
LoadedAfterResizeJSON(width, height) ==
    SetViewportHeight(parseFile(program.source.data, program.formatFlag).jsonViewer,
                      height - HeaderFooterSpace)

LoadedAfterResizeCSV(width, height) ==
    SetViewport(parseFile(program.source.data, program.formatFlag).csvViewer,
                width - HeaderFooterSpace, height - CSVBorderSpace)

(* The first resize is handled right after the FileLoadedMsg, which was   *)
(* handled before any resize.                                             *)
ResizeAfterLoadStep ==
    /\ program # NoApp
    /\ program.lastMsg.type = "FileLoadedMsg"
    /\ model.width = 0 /\ model.height = 0
    /\ program'.lastMsg.type = "WindowSizeMsg"

(* C35: the cursor, viewport origin and viewport size after the           *)
(* FileLoadedMsg and the first resize are the same in both orders of the  *)
(* two events, for every terminal size and either viewer.                 *)
C35_StartupOrderIndependent ==
    [][ ResizeAfterLoadStep =>
          /\ jsonViewer # NilViewer =>
                LET other == LoadedAfterResizeJSON(model'.width, model'.height)
                IN  /\ jsonViewer'.cursor = other.cursor
                    /\ jsonViewer'.viewportY = other.viewportY
                    /\ jsonViewer'.viewportHeight = other.viewportHeight
          /\ csvViewer # NilViewer =>
                LET other == LoadedAfterResizeCSV(model'.width, model'.height)
                IN  /\ csvViewer'.cursorRow = other.cursorRow
                    /\ csvViewer'.cursorCol = other.cursorCol
                    /\ csvViewer'.viewportX = other.viewportX
                    /\ csvViewer'.viewportY = other.viewportY
                    /\ csvViewer'.viewportWidth = other.viewportWidth
                    /\ csvViewer'.viewportHeight = other.viewportHeight ]_vars

(* The load command has not run yet or its FileLoadedMsg is in flight.    *)
LoadOutstanding == program.cmd = "scheduled" \/ program.pending # NoMsg

(* The outcome of a handled FileLoadedMsg: an error and no viewer, or no  *)
(* error and exactly the viewer that viewerType names.                    *)
LoadOutcome ==
    \/ /\ model.errorMsg # "" /\ model.viewerType = ""
       /\ jsonViewer = NilViewer /\ csvViewer = NilViewer
    \/ /\ model.errorMsg = "" /\ model.viewerType \in {TypeJSON, TypeJSONL}
       /\ jsonViewer # NilViewer /\ csvViewer = NilViewer
    \/ /\ model.errorMsg = "" /\ model.viewerType = TypeCSV
       /\ csvViewer # NilViewer /\ jsonViewer = NilViewer

(* C36: the load command runs once and its FileLoadedMsg is handled once; *)
(* isLoading is true exactly until that message is handled and never      *)
(* again; from then on the outcome is an error without viewer or exactly  *)
(* the viewer viewerType names, and the outcome never changes.            *)
C36_LoadLifecycle ==
    /\ [](program # NoApp =>
             /\ model.isLoading <=> LoadOutstanding
             /\ program.cmd = "scheduled" => program.pending = NoMsg
             /\ ~model.isLoading => LoadOutcome)
    /\ [][ program # NoApp =>
             /\ program.cmd = "done" => program'.cmd = "done"
             /\ (program.cmd = "done" /\ program.pending = NoMsg) =>
                    program'.pending = NoMsg
             /\ ~model.isLoading =>
                    /\ ~model'.isLoading
                    /\ model'.errorMsg = model.errorMsg
                    /\ model'.viewerType = model.viewerType
                    /\ (jsonViewer' = NilViewer) <=> (jsonViewer = NilViewer)
                    /\ (csvViewer' = NilViewer) <=> (csvViewer = NilViewer) ]_vars

(* A JSON document was loaded after a resize and the cursor moved down    *)
(* with a key.                                                            *)
C36_Witness ==
    /\ program # NoApp
    /\ ~model.isLoading /\ model.errorMsg = ""
    /\ model.viewerType = TypeJSON
    /\ jsonViewer # NilViewer /\ jsonViewer.cursor >= 1
    /\ model.height > HeaderFooterSpace
    /\ program.lastMsg = [type |-> "KeyMsg", key |-> "down"]

(* The nodes of scalar kind. *)
ScalarNodes(root) ==
    {n \in 1..Len(root.Parent) :
        root.Type[n] \in {"NodeString", "NodeNumber", "NodeBoolean", "NodeNull"}}

(* The viewer v on the tree that differs from its own by the expanded     *)
(* flags of the scalar nodes in F being inverted.                         *)
WithScalarFlags(v, F) ==
    [v EXCEPT !.root.Expanded =
        [n \in 1..Len(v.root.Parent) |->
            IF n \in F THEN ~v.root.Expanded[n] ELSE v.root.Expanded[n]]]

(* The viewer with the expanded flags of its scalar nodes set; two        *)
(* viewers are identical except for expanded flags of scalars iff this    *)
(* gives the same for both.                                               *)
ScalarFlagsMasked(v) ==
    [v EXCEPT !.root.Expanded =
        [n \in 1..Len(v.root.Parent) |->
            n \in ScalarNodes(v.root) \/ v.root.Expanded[n]]]

(* What the viewer shows: the visible-node list, the cursor, the viewport *)
(* origin, and for each line Render writes its indentation, its text and  *)
(* whether it is highlighted.                                             *)
TreeObservation(v) ==
    [ visibleNodes |-> v.visibleNodes,
      cursor |-> v.cursor,
      viewportY |-> v.viewportY,
      lines |-> [k \in 1..Len(JSONViewer_Render(v)) |->
                   LET node == v.visibleNodes[JSONViewer_Render(v)[k].i + 1]
                   IN  [ indent |-> getIndentation(v.root, node),
                         text |-> formatNode(v.root, node),
                         selected |-> JSONViewer_Render(v)[k].selected ]] ]

(* The viewer operations, SetViewportHeight with each height. *)
TreeOperations ==
    { [name |-> n, height |-> 0] :
        n \in {"MoveUp", "MoveDown", "ToggleNode", "CollapseAll", "ExpandAll"} }
    \cup { [name |-> "SetViewportHeight", height |-> h] : h \in ViewportHeights }

ApplyTreeOperation(op, v) ==
    CASE op.name = "MoveUp"      -> MoveUp(v)
      [] op.name = "MoveDown"    -> MoveDown(v)
      [] op.name = "ToggleNode"  -> ToggleNode(v)
      [] op.name = "CollapseAll" -> CollapseAll(v)
      [] op.name = "ExpandAll"   -> ExpandAll(v)
      [] OTHER                   -> SetViewportHeight(v, op.height)

(* C37: the expanded flags of scalar nodes have no influence.  For the    *)
(* viewer in any reachable state and the same viewer on a tree with any   *)
(* scalar flags inverted: a viewer constructed on either tree is the same *)
(* up to those flags, the lists built from either tree are the same, both *)
(* show the same visible nodes, cursor, viewport origin and lines, and    *)
(* every operation takes them to viewers that again differ in scalar      *)
(* flags only; so every sequence of operations shows the same in both.    *)
C37_ScalarExpandedIgnored ==
    jsonViewer # NilViewer =>
        LET variants == { WithScalarFlags(jsonViewer, F) :
                            F \in SUBSET ScalarNodes(jsonViewer.root) }
            shown == TreeObservation(jsonViewer)
        IN  /\ \A other \in variants :
                  /\ lastOp = "NewJSONViewer" => NewJSONViewer(other.root) = other
                  /\ buildNodeList(other) = other
                  /\ TreeObservation(other) = shown
            /\ \A op \in TreeOperations :
                  LET next == ScalarFlagsMasked(ApplyTreeOperation(op, jsonViewer))
                  IN  \A other \in variants :
                          ScalarFlagsMasked(ApplyTreeOperation(op, other)) = next

(* The root was collapsed and expanded again on a tree with two scalar    *)
(* nodes; a line of a scalar node is rendered, and inverting its flag     *)
(* gives another tree.                                                    *)
C37_Witness ==
    /\ jsonViewer # NilViewer
    /\ lastOp = "JSONViewer.ToggleNode" /\ prevOp = "JSONViewer.ToggleNode"
    /\ Cardinality(ScalarNodes(jsonViewer.root)) >= 2
    /\ \E k \in 1..Len(JSONViewer_Render(jsonViewer)) :
          LET node == jsonViewer.visibleNodes[JSONViewer_Render(jsonViewer)[k].i + 1]
          IN  /\ node \in ScalarNodes(jsonViewer.root)
              /\ WithScalarFlags(jsonViewer, {node}) # jsonViewer

(* Some record of the input has another number of fields than the first.  *)
RaggedInput ==
    \E i \in 1..Len(LooseRecords) : Len(LooseRecords[i]) # Len(LooseRecords[1])

(* Every data row of the table has as many cells as there are headers.    *)
Rectangular(d) == \A r \in 1..Len(d.Rows) : Len(d.Rows[r]) = Len(d.Headers)

(* C38: input detected as csv in which some record has another number of  *)
(* fields than the first yields a parse error and no table; otherwise the *)
(* table the parser returns, and the table of the viewer afterwards, is   *)
(* rectangular.                                                           *)
C38_ParsedTableRectangular ==
    program # NoApp =>
        /\ ( /\ program.fileType = TypeCSV /\ program.pending # NoMsg
              /\ ~program.source.data.csv.err ) =>
              IF RaggedInput
              THEN /\ program.pending.error = "failed to parse CSV"
                   /\ program.pending.csvViewer = NilViewer
                   /\ program.pending.jsonViewer = NilViewer
              ELSE /\ program.pending.error = ""
                   /\ program.pending.csvViewer # NilViewer
                   /\ Rectangular(program.pending.csvViewer.data)
        /\ ( /\ program.fileType = TypeCSV /\ program.cmd = "done"
              /\ program.pending = NoMsg
              /\ ~program.source.data.csv.err /\ RaggedInput ) =>
              csvViewer = NilViewer /\ model.errorMsg = "Error: failed to parse CSV"
        /\ csvViewer # NilViewer => Rectangular(csvViewer.data)

(* Three records of 2, 1 and 2 fields were detected as csv and the parse  *)
(* failed.                                                                *)
C38_Witness ==
    /\ program # NoApp
    /\ program.formatFlag = "" /\ program.fileType = TypeCSV
    /\ Len(LooseRecords) = 3
    /\ Len(LooseRecords[1]) = 2 /\ Len(LooseRecords[2]) = 1 /\ Len(LooseRecords[3]) = 2
    /\ program.pending # NoMsg
    /\ program.pending.error = "failed to parse CSV"

(* How often the row occurs among the rows. *)
Occurrences(rows, row) == Cardinality({r \in 1..Len(rows) : rows[r] = row})

(* C39: a sort only permutes the rows: every row occurs as often after    *)
(* the sort as before it, and headers, column visibility, cursor,         *)
(* viewport origin and column widths are unchanged; a sort on a column    *)
(* index out of range changes nothing, sort column and direction          *)
(* included.                                                              *)
C39_SortOnlyPermutes ==
    /\ [][ IsSortOp(lastOp') =>
             /\ Len(Data'.Rows) = Len(Data.Rows)
             /\ \A r \in 1..Len(Data.Rows) :
                   Occurrences(Data'.Rows, Data.Rows[r]) = Occurrences(Data.Rows, Data.Rows[r])
             /\ Data'.Headers = Data.Headers
             /\ Data'.ColumnVisibility = Data.ColumnVisibility
             /\ Data'.ColumnWidths = Data.ColumnWidths
             /\ csvViewer'.cursorRow = csvViewer.cursorRow
             /\ csvViewer'.cursorCol = csvViewer.cursorCol
             /\ csvViewer'.viewportX = csvViewer.viewportX
             /\ csvViewer'.viewportY = csvViewer.viewportY
             /\ csvViewer'.columnWidths = csvViewer.columnWidths
             /\ (Data'.SortColumn = Data.SortColumn /\ Data'.SortAsc = Data.SortAsc)
                   \/ (Data'.SortColumn >= 0 /\ Data'.SortColumn < Len(Data.Headers)) ]_vars
    /\ [](csvViewer # NilViewer =>
             \A colIndex \in {-1, Len(Data.Headers), Len(Data.Headers) + 1} :
                 \A ascending \in BOOLEAN :
                     SortByColumn(Data, colIndex, ascending) = Data)

(* Three rows, two of them equal, after a descending sort on column 0     *)
(* with the cursor on column 1.                                           *)
C39_Witness ==
    /\ csvViewer # NilViewer
    /\ lastOp = "CSVData.SortByColumn"
    /\ Data.SortColumn = 0 /\ ~Data.SortAsc
    /\ csvViewer.cursorCol = 1
    /\ Len(Data.Rows) = 3
    /\ Data.Rows[1] # Data.Rows[2] /\ Data.Rows[2] = Data.Rows[3]

(* The number of nodes of the JSON document given as input. *)
InputNodes == Len(program.source.data.json.value.Parent)

(* The number of data rows of the table given as input. *)
InputDataRows ==
    IF Len(program.source.data.csv.records) = 0 THEN 0
    ELSE Len(program.source.data.csv.records) - 1

(* C40: non-interactive mode renders through the fixed default viewport: *)
(* a JSON document of N nodes is output as exactly min(N, 26) lines, the *)
(* first nodes in pre-order, the root's line (and no other) rendered as   *)
(* the cursor; a table of R data rows is output as the header followed   *)
(* by exactly min(R, 22) data rows, the first ones in order; nothing     *)
(* beyond that is output.                                                *)
C40_NonInteractiveOutput ==
    (program # NoApp /\ lastOp = "runNonInteractiveMode" /\ program.exit = "0") =>
        /\ jsonViewer # NilViewer =>
              LET out == program.stdout.tree
                  root == jsonViewer.root
                  node(k) == jsonViewer.visibleNodes[out[k].i + 1]
                  written == {node(k) : k \in 1..Len(out)}
              IN  /\ Len(out) = min(InputNodes, 26)
                  /\ Len(root.Parent) = InputNodes
                  /\ node(1) = 1
                  /\ \A k \in 1..Len(out) : out[k].selected <=> k = 1
                  /\ \A j, k \in 1..Len(out) :
                        j < k => PreOrderBefore(root, node(j), node(k))
                  /\ \A n \in (1..InputNodes) \ written :
                        \A k \in 1..Len(out) : PreOrderBefore(root, node(k), n)
        /\ csvViewer # NilViewer =>
              LET out == program.stdout.table
              IN  /\ Len(csvViewer.data.Rows) = InputDataRows
                  /\ Len(out.rows) = min(InputDataRows, 22)
                  /\ CSVViewer_RenderRowIndices(csvViewer) = 0..(Len(out.rows) - 1)
                  /\ Len(program.source.data.csv.records) > 0 =>
                        LineShowsColumns(out.header, program.source.data.csv.records[1])
                  /\ \A k \in 1..Len(out.rows) :
                        LineShowsColumns(out.rows[k],
                                         program.source.data.csv.records[k + 1])

(* A document of more than 26 nodes, nested more than two deep, has been *)
(* output.                                                               *)
C40_Witness ==
    /\ program # NoApp
    /\ lastOp = "runNonInteractiveMode"
    /\ program.exit = "0"
    /\ jsonViewer # NilViewer
    /\ InputNodes > 26
    /\ Len(program.stdout.tree) = 26
    /\ \E n \in 1..InputNodes : jsonViewer.root.Parent[n] > 1
    /\ \E n \in 1..InputNodes : n > 2 /\ jsonViewer.root.Parent[n] = 1

(* A table of more than 22 data rows has been output. *)
C40_WitnessTable ==
    /\ program # NoApp
    /\ lastOp = "runNonInteractiveMode"
    /\ program.exit = "0"
    /\ csvViewer # NilViewer
    /\ InputDataRows > 22
    /\ Len(program.stdout.table.rows) = 22

====
